---- MODULE Spec2Model ----
(***************************************************************************)
(* A model of the cv-tailor backend: the users, user_profiles,             *)
(* job_analyses and generated_content tables and the route handlers that   *)
(* read and write them.                                                    *)
(*                                                                         *)
(* Spec      : the handlers run one at a time, each to completion.         *)
(* SpecConc  : the profile-writing handlers run interleaved; every         *)
(*             `await db.execute` / `await db.commit` is a step.           *)
(***************************************************************************)
EXTENDS Integers, Sequences, FiniteSets, TLC

VARIABLES
    users,        \* table users: sequence of rows, id = index
    profiles,     \* table user_profiles: sequence of rows, id = index
    jobs,         \* table job_analyses: set of rows
    contents,     \* table generated_content: set of rows
    job_seq,      \* last id given out by job_analyses
    content_seq,  \* last id given out by generated_content
    reqs,         \* the requests in flight, by worker slot
    last,         \* the response of the request that completed last
    now,          \* the server's clock, in minutes
    tokens,       \* the access tokens login has issued
    calls,        \* the remote model's replies to the calls of the last request
    sessions      \* the database sessions the session factory has made

vars == <<users, profiles, jobs, contents, job_seq, content_seq, reqs, last,
         now, tokens, calls, sessions>>

----------------------------------------------------------------------------
(* Bounds of the model *)

MaxProfiles == 3      \* rows the user_profiles table may hold
MaxConcProfiles == 3  \* the same, in the interleaved runs
MaxOwnRows == 2       \* rows all tables together may be given, in SpecOwn
MaxUsers == 2         \* rows the users table may hold, in SpecAuth
MaxTokens == 1        \* access tokens login may issue
MaxTicks == 3         \* steps the clock may take
MaxTokenRows == 1     \* rows user_profiles may hold, in SpecToken
MaxReplyLen == 4      \* characters in a reply of the remote model, in SpecAgent
MaxSegments == 4      \* segments in a job text, in SpecClean
MaxDeleteRows == 3    \* rows all tables together may be given, in SpecDelete
MaxSessions == 4      \* sessions the session factory may make
MaxCVRows == 2        \* rows all tables together may be given, in SpecCV

----------------------------------------------------------------------------
(* Values *)

None == 0                      \* scalar_one_or_none found no row
MultipleResultsFound == -1     \* scalar_one_or_none found several rows

MinPasswordLength == 8          \* UserCreate.validate_password
Null == -2                     \* a NULL column value

HTTP_200_OK == 200
HTTP_400_BAD_REQUEST == 400
HTTP_401_UNAUTHORIZED == 401
HTTP_404_NOT_FOUND == 404
HTTP_422_UNPROCESSABLE_ENTITY == 422
HTTP_500_INTERNAL_SERVER_ERROR == 500

Summaries == {"s1", "s2"}

\* UserProfileData, reduced to two of its fields
UserProfileData(summary) ==
    [professional_summary |-> summary, soft_skills |-> <<>>]

ProfileInputs == {UserProfileData(s) : s \in Summaries}

\* The dict bodies POST /import is tried with: {} , {"professional_summary":
\* "s1"} and {"soft_skills": "x"} (a string where a list is required).
ImportInputs ==
    { [has_summary |-> FALSE, professional_summary |-> "", soft_skills |-> "absent"],
      [has_summary |-> TRUE,  professional_summary |-> "s1", soft_skills |-> "absent"],
      [has_summary |-> FALSE, professional_summary |-> "", soft_skills |-> "string"] }

\* The fewer bodies the larger specifications are tried with
ConcProfileInputs == {UserProfileData("s1")}
ConcImportInputs == {x \in ImportInputs : ~x.has_summary}

\* UserProfileData(**import_data): raises on a field of the wrong type
ImportValid(import_data) == import_data.soft_skills # "string"

\* UserProfileData(**import_data).dict(): absent fields take their defaults
ImportToProfileData(import_data) ==
    UserProfileData(IF import_data.has_summary
                    THEN import_data.professional_summary ELSE "")

UserIds == 1..Len(users)

----------------------------------------------------------------------------
(* Queries on user_profiles *)

ProfileIds(P) == 1..Len(P)

\* select(UserProfile).where(user_id == u).where(is_active == True)
ActiveRows(P, u) == {i \in ProfileIds(P) : P[i].user_id = u /\ P[i].is_active}

\* select(UserProfile).where(user_id == u).where(version == v)
VersionRows(P, u, v) == {i \in ProfileIds(P) : P[i].user_id = u /\ P[i].version = v}

UserRows(P, u) == {i \in ProfileIds(P) : P[i].user_id = u}

\* Result.scalar_one_or_none(): the row, None, or MultipleResultsFound raised
scalar_one_or_none(S) ==
    IF S = {} THEN None
    ELSE IF Cardinality(S) = 1 THEN CHOOSE i \in S : TRUE
    ELSE MultipleResultsFound

\* UserProfile(user_id=, profile_data=, version=, is_active=True)
UserProfile(u, d, v) ==
    [user_id |-> u, profile_data |-> d, version |-> v, is_active |-> TRUE]

\* What a handler leaves behind: the table and the response
Outcome(P, status, rows) == [profiles |-> P, status |-> status, rows |-> rows]

\* Mutant: the new row is added and the active row is left active
DeactivateAndAdd_KeepActive(P, cur, row) == Append(P, row)

\* Mutant: the active row is overwritten in place instead of a new row added
DeactivateAndAdd_InPlace(P, cur, row) ==
    IF cur = 0 THEN Append(P, row)
    ELSE [i \in 1..Len(P) |-> IF i = cur THEN row ELSE P[i]]

\* current_profile.is_active = False; db.add(new_profile); db.commit()
DeactivateAndAdd(P, cur, row) ==
    Append([i \in ProfileIds(P) |->
              IF i = cur THEN [P[i] EXCEPT !.is_active = FALSE] ELSE P[i]],
           row)

----------------------------------------------------------------------------
(* The profile handlers. Each takes the table as it is when the handler    *)
(* commits and the rows its SELECTs returned; run to completion, the       *)
(* SELECTs are taken on the same table.                                    *)

\* POST /api/profile/
create_user_profile(P, u, d, existing_profile) ==
    IF existing_profile = MultipleResultsFound
    THEN Outcome(P, HTTP_500_INTERNAL_SERVER_ERROR, <<>>)
    ELSE IF existing_profile # None
    THEN Outcome(P, HTTP_400_BAD_REQUEST, <<>>)
    ELSE Outcome(Append(P, UserProfile(u, d, 1)), HTTP_200_OK, <<Len(P) + 1>>)

\* PUT /api/profile/
update_user_profile(P, u, d, current_profile) ==
    IF current_profile = MultipleResultsFound
    THEN Outcome(P, HTTP_500_INTERNAL_SERVER_ERROR, <<>>)
    ELSE LET next_version ==
                 IF current_profile # None THEN P[current_profile].version + 1 ELSE 1
         IN  Outcome(DeactivateAndAdd(P, current_profile, UserProfile(u, d, next_version)),
                     HTTP_200_OK, <<Len(P) + 1>>)

\* Mutant: the new row takes the data of the active row, not of the target
revert_CopiesCurrent(P, u, target_profile, current_profile) ==
    IF target_profile = MultipleResultsFound
    THEN Outcome(P, HTTP_500_INTERNAL_SERVER_ERROR, <<>>)
    ELSE IF target_profile = None
    THEN Outcome(P, HTTP_404_NOT_FOUND, <<>>)
    ELSE IF current_profile = MultipleResultsFound
    THEN Outcome(P, HTTP_500_INTERNAL_SERVER_ERROR, <<>>)
    ELSE LET new_version ==
                 IF current_profile # None THEN P[current_profile].version + 1 ELSE 1
             source == IF current_profile # None THEN current_profile ELSE target_profile
         IN  Outcome(DeactivateAndAdd(P, current_profile,
                        UserProfile(u, P[source].profile_data, new_version)),
                     HTTP_200_OK, <<Len(P) + 1>>)

\* Mutant: a missing target version is not checked for; an empty profile is
\* written instead
revert_NoNotFound(P, u, target_profile, current_profile) ==
    IF target_profile = MultipleResultsFound \/ current_profile = MultipleResultsFound
    THEN Outcome(P, HTTP_500_INTERNAL_SERVER_ERROR, <<>>)
    ELSE LET new_version ==
                 IF current_profile # None THEN P[current_profile].version + 1 ELSE 1
             data == IF target_profile = None THEN UserProfileData("")
                     ELSE P[target_profile].profile_data
         IN  Outcome(DeactivateAndAdd(P, current_profile,
                        UserProfile(u, data, new_version)),
                     HTTP_200_OK, <<Len(P) + 1>>)

\* Mutant: the new row gets the version after the target's
revert_to_profile_version_AfterTarget(P, u, target_profile, current_profile) ==
    IF target_profile = MultipleResultsFound
    THEN Outcome(P, HTTP_500_INTERNAL_SERVER_ERROR, <<>>)
    ELSE IF target_profile = None
    THEN Outcome(P, HTTP_404_NOT_FOUND, <<>>)
    ELSE IF current_profile = MultipleResultsFound
    THEN Outcome(P, HTTP_500_INTERNAL_SERVER_ERROR, <<>>)
    ELSE Outcome(DeactivateAndAdd(P, current_profile,
                    UserProfile(u, P[target_profile].profile_data,
                                P[target_profile].version + 1)),
                 HTTP_200_OK, <<Len(P) + 1>>)

\* POST /api/profile/revert/{version}
revert_to_profile_version(P, u, target_profile, current_profile) ==
    IF target_profile = MultipleResultsFound
    THEN Outcome(P, HTTP_500_INTERNAL_SERVER_ERROR, <<>>)
    ELSE IF target_profile = None
    THEN Outcome(P, HTTP_404_NOT_FOUND, <<>>)
    ELSE IF current_profile = MultipleResultsFound
    THEN Outcome(P, HTTP_500_INTERNAL_SERVER_ERROR, <<>>)
    ELSE LET new_version ==
                 IF current_profile # None THEN P[current_profile].version + 1 ELSE 1
         IN  Outcome(DeactivateAndAdd(P, current_profile,
                        UserProfile(u, P[target_profile].profile_data, new_version)),
                     HTTP_200_OK, <<Len(P) + 1>>)

\* POST /api/profile/import: every exception becomes a 400
import_profile_data(P, u, import_data, current_profile) ==
    IF ~ImportValid(import_data)
    THEN Outcome(P, HTTP_400_BAD_REQUEST, <<>>)
    ELSE IF current_profile = MultipleResultsFound
    THEN Outcome(P, HTTP_400_BAD_REQUEST, <<>>)
    ELSE LET next_version ==
                 IF current_profile # None THEN P[current_profile].version + 1 ELSE 1
         IN  Outcome(DeactivateAndAdd(P, current_profile,
                        UserProfile(u, ImportToProfileData(import_data), next_version)),
                     HTTP_200_OK, <<Len(P) + 1>>)

----------------------------------------------------------------------------
(* Responses *)

Response(op, u, arg, status, rows) ==
    [op |-> op, user |-> u, arg |-> arg, status |-> status, rows |-> rows,
     email |-> "", password |-> ""]

\* The response to a request that carries credentials instead of a token
AuthResponse(op, email, password, status, rows) ==
    [op |-> op, user |-> 0, arg |-> 0, status |-> status, rows |-> rows,
     email |-> email, password |-> password]

NoResponse == Response("none", 0, 0, 0, <<>>)

Idle == [op |-> "idle", pc |-> "idle", user |-> 0, data |-> UserProfileData(""),
         import_data |-> CHOOSE x \in ImportInputs : TRUE,
         version |-> 0, target |-> None, current |-> None]

----------------------------------------------------------------------------
(* The profile routes, each request run to completion *)

\* GET /api/profile/ : the active row, or the empty structure whose
\* created_at = None fails UserProfileResponse (created_at: datetime)
get_user_profile(P, u) ==
    LET profile == scalar_one_or_none(ActiveRows(P, u)) IN
    IF profile = MultipleResultsFound \/ profile = None
    THEN Outcome(P, HTTP_500_INTERNAL_SERVER_ERROR, <<>>)
    ELSE Outcome(P, HTTP_200_OK, <<profile>>)

\* The ids of S in descending order of version (ties in either order)
RECURSIVE OrderByVersionDesc(_, _)
OrderByVersionDesc(P, S) ==
    IF S = {} THEN <<>>
    ELSE LET top == CHOOSE i \in S : \A j \in S : P[j].version <= P[i].version
         IN  <<top>> \o OrderByVersionDesc(P, S \ {top})

\* GET /api/profile/history?limit=
get_profile_history(P, u, limit) ==
    LET ordered == OrderByVersionDesc(P, UserRows(P, u)) IN
    Outcome(P, HTTP_200_OK,
            SubSeq(ordered, 1, IF Len(ordered) < limit THEN Len(ordered) ELSE limit))

Complete(op, u, arg, out, max) ==
    /\ Len(out.profiles) <= max
    /\ profiles' = out.profiles
    /\ last' = Response(op, u, arg, out.status, out.rows)

CreateProfile(u, d, max) ==
    /\ Complete("create", u, 0,
         create_user_profile(profiles, u, d, scalar_one_or_none(ActiveRows(profiles, u))), max)
    /\ UNCHANGED <<users, jobs, contents, job_seq, content_seq, reqs, now, tokens, calls, sessions>>

UpdateProfile(u, d, max) ==
    /\ Complete("update", u, 0,
         update_user_profile(profiles, u, d, scalar_one_or_none(ActiveRows(profiles, u))), max)
    /\ UNCHANGED <<users, jobs, contents, job_seq, content_seq, reqs, now, tokens, calls, sessions>>

RevertProfile(u, version, max) ==
    /\ Complete("revert", u, version,
         revert_to_profile_version(profiles, u,
             scalar_one_or_none(VersionRows(profiles, u, version)),
             scalar_one_or_none(ActiveRows(profiles, u))), max)
    /\ UNCHANGED <<users, jobs, contents, job_seq, content_seq, reqs, now, tokens, calls, sessions>>

ImportProfile(u, import_data, max) ==
    /\ Complete("import", u, 0,
         import_profile_data(profiles, u, import_data,
             scalar_one_or_none(ActiveRows(profiles, u))), max)
    /\ UNCHANGED <<users, jobs, contents, job_seq, content_seq, reqs, now, tokens, calls, sessions>>

GetProfile(u, max) ==
    /\ Complete("get_profile", u, 0, get_user_profile(profiles, u), max)
    /\ UNCHANGED <<users, jobs, contents, job_seq, content_seq, reqs, now, tokens, calls, sessions>>

GetProfileHistory(u, limit, max) ==
    /\ Complete("profile_history", u, limit, get_profile_history(profiles, u, limit), max)
    /\ UNCHANGED <<users, jobs, contents, job_seq, content_seq, reqs, now, tokens, calls, sessions>>

----------------------------------------------------------------------------
(* job_analyses and generated_content *)

\* JobAnalysis(user_id=, analysis_data=), id given by the table
JobAnalysis(id, u, analysis_data) ==
    [id |-> id, user_id |-> u, analysis_data |-> analysis_data]

\* GeneratedContent(user_id=, job_analysis_id=, content_type=)
GeneratedContent(id, u, job_analysis_id, content_type) ==
    [id |-> id, user_id |-> u, job_analysis_id |-> job_analysis_id,
     content_type |-> content_type]

\* Mutant: the row is looked up by id alone, whoever owns it
OwnedRow_AnyOwner(T, id, u) ==
    scalar_one_or_none({r.id : r \in {x \in T : x.id = id}})

\* select(T).where(T.id == id).where(T.user_id == u), scalar_one_or_none()
OwnedRow(T, id, u) ==
    scalar_one_or_none({r.id : r \in {x \in T : x.id = id /\ x.user_id = u}})

Row(T, id) == CHOOSE r \in T : r.id = id

\* The ids of S in descending order (created_at desc: newest first)
RECURSIVE NewestFirst(_)
NewestFirst(S) ==
    IF S = {} THEN <<>>
    ELSE LET top == CHOOSE i \in S : \A j \in S : j <= i
         IN  <<top>> \o NewestFirst(S \ {top})

\* select(T).where(T.user_id == u).order_by(T.created_at.desc())
History(T, u) == NewestFirst({r.id : r \in {x \in T : x.user_id = u}})

\* The remote model's replies: a text is a sequence of the characters
\*   "{" "}"  braces
\*   "m"      the members job_title, company_name and required_skills, in full
\*   "k"      a member name and its colon, a value still to come
\*   "x"      any other character
Chars == {"{", "}", "m", "k", "x"}

\* What agent.run gave: a reply with its text, or an exception
Reply(text) == [failed |-> FALSE, text |-> text]
Failure == [failed |-> TRUE, text |-> <<>>]

\* What an agent method did: raised, or returned value
Raise == [raised |-> TRUE]
Return(value) == [raised |-> FALSE, value |-> value]

\* str.find(ch) and str.rfind(ch): a 0-based index, or -1
find(text, ch) ==
    IF \E i \in 1..Len(text) : text[i] = ch
    THEN (CHOOSE i \in 1..Len(text) :
              text[i] = ch /\ \A j \in 1..(i - 1) : text[j] # ch) - 1
    ELSE -1

rfind(text, ch) ==
    IF \E i \in 1..Len(text) : text[i] = ch
    THEN (CHOOSE i \in 1..Len(text) :
              text[i] = ch /\ \A j \in (i + 1)..Len(text) : text[j] # ch) - 1
    ELSE -1

\* text[start:stop] of Python: a negative index counts from the end, and
\* both are clipped to the text
Slice(text, start, stop) ==
    LET clip(i) == IF i < 0
                   THEN (IF Len(text) + i < 0 THEN 0 ELSE Len(text) + i)
                   ELSE (IF i > Len(text) THEN Len(text) ELSE i)
    IN  SubSeq(text, clip(start) + 1, clip(stop))

\* The texts that are a JSON object: "{" "}" around nothing, around "m", or
\* around "k" and a JSON object
RECURSIVE JsonObject(_)
JsonObject(text) ==
    /\ Len(text) >= 2
    /\ text[1] = "{" /\ text[Len(text)] = "}"
    /\ LET members == SubSeq(text, 2, Len(text) - 1) IN
       \/ members = <<>>
       \/ members = <<"m">>
       \/ (Len(members) >= 1 /\ members[1] = "k" /\ JsonObject(Tail(members)))

\* json.loads: the parsed value, or JSONDecodeError
json_loads(text) ==
    IF JsonObject(text) THEN Return([parsed |-> text]) ELSE Raise

\* json_start = text.find('{'); json_end = text.rfind('}') + 1;
\* json.loads(text[json_start:json_end])
ParseBraceSlice(text) ==
    LET json_start == find(text, "{")
        json_end   == rfind(text, "}") + 1
    IN  json_loads(Slice(text, json_start, json_end))

\* The fallback of JobAnalyzerAgent.analyze_job_posting
JobFallback(text) ==
    [raw_analysis |-> text, error |-> "Failed to parse structured analysis"]

\* The fallback of CVTailorAgent.analyze_profile_gaps
GapFallback ==
    [technical_skills_gaps |-> <<>>, experience_gaps |-> <<>>,
     certification_gaps |-> <<>>, soft_skills_gaps |-> <<>>,
     overall_strengths |-> <<>>, match_percentage |-> "Unable to analyze"]

\* JobAnalysisResponse.analysis_data: JobAnalysisData needs job_title,
\* company_name and required_skills, which the fallback object lacks
JobAnalysisResponseValid(row) ==
    /\ "parsed" \in DOMAIN row.analysis_data
    /\ row.analysis_data.parsed = <<"{", "m", "}">>

\* What a jobs/generate handler leaves behind
Effect(J, C, status, rows) ==
    [jobs |-> J, contents |-> C, status |-> status, rows |-> rows, calls |-> <<>>]

\* The same, of a handler that has awaited the remote model: calls holds
\* the reply to each agent.run, in order
RemoteEffect(J, C, status, rows, replies) ==
    [jobs |-> J, contents |-> C, status |-> status, rows |-> rows, calls |-> replies]

\* Mutant: the method goes on without a URL and without a text
analyze_job_posting_NoInputCheck(has_input, reply) ==
    IF reply.failed THEN Raise
    ELSE LET analysis_data == ParseBraceSlice(reply.text) IN
         IF analysis_data.raised THEN Return(JobFallback(reply.text))
         ELSE analysis_data

\* JobAnalyzerAgent.analyze_job_posting: raises without url and text and
\* when the remote call fails; a reply that is no JSON gives the fallback
analyze_job_posting(has_input, reply) ==
    IF ~has_input \/ reply.failed THEN Raise
    ELSE LET analysis_data == ParseBraceSlice(reply.text) IN
         IF analysis_data.raised THEN Return(JobFallback(reply.text))
         ELSE analysis_data

\* POST /api/jobs/analyze: any exception of the try block becomes a 400;
\* the response model is applied to the returned row after the commit
analyze_job_posting_route(J, C, seq, u, has_input, reply) ==
    LET analysis_result == analyze_job_posting(has_input, reply)
        replies == IF has_input THEN <<reply>> ELSE <<>>
    IN  IF analysis_result.raised
        THEN RemoteEffect(J, C, HTTP_400_BAD_REQUEST, <<>>, replies)
        ELSE LET job_analysis == JobAnalysis(seq + 1, u, analysis_result.value) IN
             RemoteEffect(J \cup {job_analysis}, C,
                          IF JobAnalysisResponseValid(job_analysis)
                          THEN HTTP_200_OK ELSE HTTP_500_INTERNAL_SERVER_ERROR,
                          <<seq + 1>>, replies)

\* GET /api/jobs/history
get_job_analysis_history(J, C, u) ==
    Effect(J, C,
           IF \A r \in J : r.user_id = u => JobAnalysisResponseValid(r)
           THEN HTTP_200_OK ELSE HTTP_500_INTERNAL_SERVER_ERROR,
           History(J, u))

\* GET /api/jobs/{analysis_id}
get_job_analysis(J, C, u, analysis_id) ==
    LET analysis == OwnedRow(J, analysis_id, u) IN
    IF analysis = None THEN Effect(J, C, HTTP_404_NOT_FOUND, <<>>)
    ELSE Effect(J, C,
                IF JobAnalysisResponseValid(Row(J, analysis))
                THEN HTTP_200_OK ELSE HTTP_500_INTERNAL_SERVER_ERROR,
                <<analysis>>)

\* DELETE /api/jobs/{analysis_id}: the relationship generated_content has
\* no delete cascade, so the rows that refer to the analysis get NULL
delete_job_analysis(J, C, u, analysis_id) ==
    LET analysis == OwnedRow(J, analysis_id, u) IN
    IF analysis = None THEN Effect(J, C, HTTP_404_NOT_FOUND, <<>>)
    ELSE Effect(J \ {Row(J, analysis)},
                {IF c.job_analysis_id = analysis
                 THEN [c EXCEPT !.job_analysis_id = Null] ELSE c : c \in C},
                HTTP_200_OK, <<analysis>>)

\* GET /api/jobs/{analysis_id}/keywords
get_ats_keywords(J, C, u, analysis_id, reply) ==
    LET analysis == OwnedRow(J, analysis_id, u) IN
    IF analysis = None THEN Effect(J, C, HTTP_404_NOT_FOUND, <<>>)
    ELSE IF reply.failed THEN RemoteEffect(J, C, HTTP_400_BAD_REQUEST, <<>>, <<reply>>)
    ELSE RemoteEffect(J, C, HTTP_200_OK, <<analysis>>, <<reply>>)

\* CVTailorAgent.generate_tailored_cv returns the dict {"cv_content": ...,
\* "gap_analysis": ...}; BioGeneratorAgent returns a str
AgentResult(content_type) == IF content_type = "cv" THEN "dict" ELSE "str"

\* GeneratedContent.content is a Text column: the driver binds a str only,
\* so the commit of any other value raises
TextColumnBinds(value) == value = "str"

\* The store step of both generate routes, inside their try block
StoreGenerated(J, C, seq, u, job_analysis_id, content_type, replies) ==
    IF TextColumnBinds(AgentResult(content_type))
    THEN RemoteEffect(J, C \cup {GeneratedContent(seq + 1, u, job_analysis_id, content_type)},
                      HTTP_200_OK, <<seq + 1>>, replies)
    ELSE RemoteEffect(J, C, HTTP_500_INTERNAL_SERVER_ERROR, <<>>, replies)

\* Mutant: a reply that does not parse makes the method raise
analyze_profile_gaps_NoFallback(reply) ==
    IF reply.failed THEN Raise ELSE ParseBraceSlice(reply.text)

\* CVTailorAgent.analyze_profile_gaps
analyze_profile_gaps(reply) ==
    IF reply.failed THEN Raise
    ELSE LET gap_analysis == ParseBraceSlice(reply.text) IN
         IF gap_analysis.raised THEN Return(GapFallback) ELSE gap_analysis

\* CVTailorAgent.generate_tailored_cv, include_gap_analysis left at True:
\* one agent.run for the CV, then analyze_profile_gaps
CVTailorAgent_generate_tailored_cv(cv_reply, gap_reply) ==
    IF cv_reply.failed THEN Raise
    ELSE LET gap_analysis == analyze_profile_gaps(gap_reply) IN
         IF gap_analysis.raised THEN Raise
         ELSE Return([cv_content |-> cv_reply.text,
                      gap_analysis |-> gap_analysis.value])

\* Mutant: the route goes on to the agent without an active profile
generate_tailored_cv_NoProfileCheck(J, C, P, seq, u, job_analysis_id, cv_reply, gap_reply) ==
    LET job_analysis == OwnedRow(J, job_analysis_id, u)
        cv_content == CVTailorAgent_generate_tailored_cv(cv_reply, gap_reply)
        replies == IF cv_reply.failed THEN <<cv_reply>> ELSE <<cv_reply, gap_reply>>
    IN  IF job_analysis = None THEN Effect(J, C, HTTP_404_NOT_FOUND, <<>>)
        ELSE IF cv_content.raised
        THEN RemoteEffect(J, C, HTTP_500_INTERNAL_SERVER_ERROR, <<>>, replies)
        ELSE StoreGenerated(J, C, seq, u, job_analysis_id, "cv", replies)

\* POST /api/generate/cv
generate_tailored_cv(J, C, P, seq, u, job_analysis_id, cv_reply, gap_reply) ==
    LET job_analysis == OwnedRow(J, job_analysis_id, u)
        user_profile == scalar_one_or_none(ActiveRows(P, u))
        cv_content == CVTailorAgent_generate_tailored_cv(cv_reply, gap_reply)
        replies == IF cv_reply.failed THEN <<cv_reply>> ELSE <<cv_reply, gap_reply>>
    IN  IF job_analysis = None THEN Effect(J, C, HTTP_404_NOT_FOUND, <<>>)
        ELSE IF user_profile = MultipleResultsFound
        THEN Effect(J, C, HTTP_500_INTERNAL_SERVER_ERROR, <<>>)
        ELSE IF user_profile = None THEN Effect(J, C, HTTP_404_NOT_FOUND, <<>>)
        ELSE IF cv_content.raised
        THEN RemoteEffect(J, C, HTTP_500_INTERNAL_SERVER_ERROR, <<>>, replies)
        ELSE StoreGenerated(J, C, seq, u, job_analysis_id, "cv", replies)

\* POST /api/generate/bio: the row stores request.job_analysis_id as sent
\* The contexts that have a method of their own in BioGeneratorAgent; none
\* of these methods takes a job context
NamedContexts == {"presentation", "linkedin", "executive", "elevator"}

\* The job context the bio route loads: the analysis of this id owned by
\* the caller, None when the id is 0 or matches no such row
job_context(J, u, job_analysis_id) ==
    IF job_analysis_id = 0 THEN None ELSE OwnedRow(J, job_analysis_id, u)

\* A call of the bio agent: the job context it was given, with the reply
BioCall(reply, context_given) ==
    [failed |-> reply.failed, text |-> reply.text, job_context |-> context_given]

generate_professional_bio(J, C, P, seq, u, job_analysis_id, context, reply) ==
    LET user_profile == scalar_one_or_none(ActiveRows(P, u))
        call == BioCall(reply, IF context \in NamedContexts THEN None
                               ELSE job_context(J, u, job_analysis_id))
    IN
    IF user_profile = MultipleResultsFound
    THEN Effect(J, C, HTTP_500_INTERNAL_SERVER_ERROR, <<>>)
    ELSE IF user_profile = None THEN Effect(J, C, HTTP_404_NOT_FOUND, <<>>)
    ELSE IF reply.failed
    THEN RemoteEffect(J, C, HTTP_500_INTERNAL_SERVER_ERROR, <<>>, <<call>>)
    ELSE StoreGenerated(J, C, seq, u, job_analysis_id, "bio", <<call>>)

\* GET /api/generate/history
get_generation_history(J, C, u) == Effect(J, C, HTTP_200_OK, History(C, u))

\* GET /api/generate/{content_id}
get_generated_content(J, C, u, content_id) ==
    LET content == OwnedRow(C, content_id, u) IN
    IF content = None THEN Effect(J, C, HTTP_404_NOT_FOUND, <<>>)
    ELSE Effect(J, C, HTTP_200_OK, <<content>>)

ExportFormats == {"markdown", "md", "txt", "json"}

\* GET /api/generate/{content_id}/export?export_format=
export_content(J, C, u, content_id, export_format) ==
    LET content == OwnedRow(C, content_id, u) IN
    IF content = None THEN Effect(J, C, HTTP_404_NOT_FOUND, <<>>)
    ELSE IF export_format \in ExportFormats THEN Effect(J, C, HTTP_200_OK, <<content>>)
    ELSE Effect(J, C, HTTP_400_BAD_REQUEST, <<>>)

\* DELETE /api/generate/{content_id}
delete_generated_content(J, C, u, content_id) ==
    LET content == OwnedRow(C, content_id, u) IN
    IF content = None THEN Effect(J, C, HTTP_404_NOT_FOUND, <<>>)
    ELSE Effect(J, C \ {Row(C, content)}, HTTP_200_OK, <<content>>)

\* A jobs/generate request run to completion
AnswerWithin(op, u, arg, eff, max) ==
    /\ jobs' = eff.jobs
    /\ contents' = eff.contents
    /\ job_seq' = IF Cardinality(eff.jobs) > Cardinality(jobs)
                  THEN job_seq + 1 ELSE job_seq
    /\ content_seq' = IF Cardinality(eff.contents) > Cardinality(contents)
                      THEN content_seq + 1 ELSE content_seq
    /\ Len(profiles) + job_seq' + content_seq' <= max
    /\ last' = Response(op, u, arg, eff.status, eff.rows)
    /\ calls' = eff.calls
    /\ UNCHANGED <<users, profiles, reqs, now, tokens, sessions>>

Answer(op, u, arg, eff) == AnswerWithin(op, u, arg, eff, MaxOwnRows)

\* What the remote model does: a JSON reply, a reply that is no JSON, an error
Replies == {Reply(<<"{", "m", "}">>), Reply(<<"x">>), Failure}
TextReplies == {Reply(<<"x">>), Failure}

\* The query parameter context of the bio route: its default and a value
\* that is none of the named ones
Contexts == {"presentation", "conference"}

\* The ids a request may name: those given out so far, and one never given
JobArgs == 1..(job_seq + 1)
ContentArgs == 1..(content_seq + 1)

\* The response keeps whether the request carried a job URL or a job text
AnalyzeJob(u, has_input, reply) ==
    Answer("analyze", u, IF has_input THEN 1 ELSE 0,
           analyze_job_posting_route(jobs, contents, job_seq, u, has_input, reply))

JobHistory(u) ==
    Answer("job_history", u, 0, get_job_analysis_history(jobs, contents, u))

GetJob(u, id) ==
    Answer("get_job", u, id, get_job_analysis(jobs, contents, u, id))

DeleteJob(u, id) ==
    Answer("delete_job", u, id, delete_job_analysis(jobs, contents, u, id))

Keywords(u, id, reply) ==
    Answer("keywords", u, id, get_ats_keywords(jobs, contents, u, id, reply))

GenerateCV(u, id, cv_reply, gap_reply) ==
    Answer("generate_cv", u, id,
           generate_tailored_cv(jobs, contents, profiles, content_seq, u, id,
                                cv_reply, gap_reply))

GenerateBio(u, id, context, reply) ==
    Answer("generate_bio", u, id,
           generate_professional_bio(jobs, contents, profiles, content_seq, u, id,
                                     context, reply))

GenerationHistory(u) ==
    Answer("generation_history", u, 0, get_generation_history(jobs, contents, u))

GetContent(u, id) ==
    Answer("get_content", u, id, get_generated_content(jobs, contents, u, id))

ExportContent(u, id, export_format) ==
    Answer("export", u, id, export_content(jobs, contents, u, id, export_format))

DeleteContent(u, id) ==
    Answer("delete_content", u, id, delete_generated_content(jobs, contents, u, id))

----------------------------------------------------------------------------
(* Users and authentication *)

\* utils.security.get_password_hash: a salted digest of the password
get_password_hash(password, salt) ==
    [salt |-> salt, digest |-> <<salt, password>>]

\* utils.security.verify_password
verify_password(plain_password, hashed_password) ==
    hashed_password.digest = <<hashed_password.salt, plain_password>>

\* User(email=, password_hash=), is_active defaulting to True
User(email, password_hash) ==
    [email |-> email, password_hash |-> password_hash, is_active |-> TRUE]

\* UserRepository.get_user_by_email
get_user_by_email(U, email) ==
    scalar_one_or_none({i \in 1..Len(U) : U[i].email = email})

\* UserRepository.create_user
create_user(U, email, password, salt) ==
    Append(U, User(email, get_password_hash(password, salt)))

\* Mutant: any password is accepted for a stored email
authenticate_user_AnyPassword(U, email, password) ==
    LET user == get_user_by_email(U, email) IN
    IF user # None /\ user # MultipleResultsFound THEN user ELSE None

\* UserRepository.authenticate_user: the user's id, or None
authenticate_user(U, email, password) ==
    LET user == get_user_by_email(U, email) IN
    IF user = MultipleResultsFound THEN MultipleResultsFound
    ELSE IF user # None /\ verify_password(password, U[user].password_hash)
    THEN user ELSE None

\* UserCreate.validate_password
validate_password(password) == Len(password) >= MinPasswordLength

\* POST /api/auth/register
register(U, email, password, salt) ==
    IF ~validate_password(password)
    THEN [users |-> U, status |-> HTTP_422_UNPROCESSABLE_ENTITY, rows |-> <<>>]
    ELSE IF get_user_by_email(U, email) # None
    THEN [users |-> U, status |-> HTTP_400_BAD_REQUEST, rows |-> <<>>]
    ELSE [users |-> create_user(U, email, password, salt), status |-> HTTP_200_OK,
          rows |-> <<Len(U) + 1>>]

\* Mutant: the is_active test of login is left out
login_IgnoresInactive(U, email, password) ==
    LET user == authenticate_user(U, email, password) IN
    IF user = MultipleResultsFound
    THEN [users |-> U, status |-> HTTP_500_INTERNAL_SERVER_ERROR, rows |-> <<>>]
    ELSE IF user = None
    THEN [users |-> U, status |-> HTTP_401_UNAUTHORIZED, rows |-> <<>>]
    ELSE [users |-> U, status |-> HTTP_200_OK, rows |-> <<user>>]

\* POST /api/auth/login; rows holds what authenticate_user returned
login(U, email, password) ==
    LET user == authenticate_user(U, email, password) IN
    IF user = MultipleResultsFound
    THEN [users |-> U, status |-> HTTP_500_INTERNAL_SERVER_ERROR, rows |-> <<>>]
    ELSE IF user = None
    THEN [users |-> U, status |-> HTTP_401_UNAUTHORIZED, rows |-> <<>>]
    ELSE IF ~U[user].is_active
    THEN [users |-> U, status |-> HTTP_400_BAD_REQUEST, rows |-> <<user>>]
    ELSE [users |-> U, status |-> HTTP_200_OK, rows |-> <<user>>]

\* UserRepository.deactivate_user
deactivate_user(U, user_id) ==
    IF user_id \in 1..Len(U)
    THEN [i \in 1..Len(U) |-> IF i = user_id THEN [U[i] EXCEPT !.is_active = FALSE]
                                           ELSE U[i]]
    ELSE U

Emails == {"alice@example.com", "bob@example.com"}
UnknownEmail == "carol@example.com"
Passwords == {"Password123", "hunter2hunter2", "short"}
Salts == {"salt1", "salt2"}

\* Settings.access_token_expire_minutes
access_token_expire_minutes == 1440

\* The clock is moved half a token's lifetime at a time
TickMinutes == access_token_expire_minutes \div 2

\* payload.get("sub") of a payload that has no "sub"
NoSubject == "no sub"

\* utils.security.create_access_token, called by login with
\* data = {"sub": user.email, "user_id": user.id} and
\* expires_delta = timedelta(minutes = access_token_expire_minutes)
create_access_token(email, user_id, t) ==
    [kind |-> "jwt", sub |-> email, user_id |-> user_id,
     exp |-> t + access_token_expire_minutes, signature |-> "valid"]

\* A bearer string that is no JWT at all
Malformed ==
    [kind |-> "garbage", sub |-> NoSubject, user_id |-> 0, exp |-> 0,
     signature |-> "none"]

\* utils.security.verify_token at time t: the payload, or the unauthorized
\* error on a malformed token, a signature mismatch or an expired token. At
\* the instant of expiry itself the token is accepted if at_expiry is TRUE.
verify_token(token, t, at_expiry) ==
    IF \/ token.kind # "jwt"
       \/ token.signature # "valid"
       \/ t > token.exp
       \/ (t = token.exp /\ ~at_expiry)
    THEN [status |-> HTTP_401_UNAUTHORIZED, sub |-> NoSubject]
    ELSE [status |-> HTTP_200_OK, sub |-> token.sub]

\* Mutant: a deactivated user is let through
get_current_user_SkipsInactive(U, credentials, t, at_expiry) ==
    LET payload == verify_token(credentials, t, at_expiry)
        user == get_user_by_email(U, payload.sub)
    IN  IF payload.status # HTTP_200_OK \/ payload.sub = NoSubject \/ user = None
        THEN [status |-> HTTP_401_UNAUTHORIZED, user |-> None]
        ELSE [status |-> HTTP_200_OK, user |-> user]

\* Mutant: a subject that names no stored user is answered not-found
get_current_user_UnknownIs404(U, credentials, t, at_expiry) ==
    LET payload == verify_token(credentials, t, at_expiry)
        user == get_user_by_email(U, payload.sub)
    IN  IF payload.status # HTTP_200_OK \/ payload.sub = NoSubject
        THEN [status |-> HTTP_401_UNAUTHORIZED, user |-> None]
        ELSE IF user = None
        THEN [status |-> HTTP_404_NOT_FOUND, user |-> None]
        ELSE IF ~U[user].is_active
        THEN [status |-> HTTP_400_BAD_REQUEST, user |-> None]
        ELSE [status |-> HTTP_200_OK, user |-> user]

\* get_current_user: the user the bearer token stands for, or the error raised
get_current_user(U, credentials, t, at_expiry) ==
    LET payload == verify_token(credentials, t, at_expiry) IN
    IF payload.status # HTTP_200_OK
    THEN [status |-> payload.status, user |-> None]
    ELSE IF payload.sub = NoSubject
    THEN [status |-> HTTP_401_UNAUTHORIZED, user |-> None]
    ELSE LET user == get_user_by_email(U, payload.sub) IN
         IF user = MultipleResultsFound
         THEN [status |-> HTTP_500_INTERNAL_SERVER_ERROR, user |-> None]
         ELSE IF user = None
         THEN [status |-> HTTP_401_UNAUTHORIZED, user |-> None]
         ELSE IF ~U[user].is_active
         THEN [status |-> HTTP_400_BAD_REQUEST, user |-> None]
         ELSE [status |-> HTTP_200_OK, user |-> user]

\* The response to a request that carried a bearer token
TokenResponse(op, u, credentials, status, rows) ==
    [op |-> op, user |-> u, arg |-> 0, status |-> status, rows |-> rows,
     email |-> "", password |-> "", credentials |-> credentials]

\* The bearer strings a client may send: the tokens login issued, those
\* tokens with the payload or the signature tampered with, a string that is
\* no token, and tokens signed with the server's key that carry no subject
\* or the email of nobody
Credentials ==
    tokens
    \cup {[t EXCEPT !.signature = "forged", !.sub = e] : t \in tokens, e \in Emails}
    \cup {Malformed}
    \cup {[create_access_token(NoSubject, 0, MaxTicks * TickMinutes) EXCEPT !.exp = @ + 1],
          [create_access_token(UnknownEmail, 0, MaxTicks * TickMinutes) EXCEPT !.exp = @ + 1]}

\* GET /api/auth/me
get_current_user_profile(U, credentials, t, at_expiry) ==
    LET current_user == get_current_user(U, credentials, t, at_expiry) IN
    [status |-> current_user.status,
     user   |-> current_user.user,
     rows   |-> IF current_user.status = HTTP_200_OK
                THEN <<current_user.user>> ELSE <<>>]

Me(credentials, at_expiry) ==
    LET out == get_current_user_profile(users, credentials, now, at_expiry) IN
    /\ last' = TokenResponse("me", out.user, credentials, out.status, out.rows)
    /\ UNCHANGED <<users, profiles, jobs, contents, job_seq, content_seq, reqs,
                   now, tokens, calls, sessions>>

\* PUT /api/profile/ with its Depends(get_current_user): the handler runs
\* only if the dependency returned a user
PutProfile(credentials, at_expiry, d) ==
    LET current_user == get_current_user(users, credentials, now, at_expiry)
        out == IF current_user.status = HTTP_200_OK
               THEN update_user_profile(profiles, current_user.user, d,
                        scalar_one_or_none(ActiveRows(profiles, current_user.user)))
               ELSE Outcome(profiles, current_user.status, <<>>)
    IN  /\ Len(out.profiles) <= MaxTokenRows
        /\ profiles' = out.profiles
        /\ last' = TokenResponse("update", current_user.user, credentials,
                                 out.status, out.rows)
        /\ UNCHANGED <<users, jobs, contents, job_seq, content_seq, reqs,
                       now, tokens, calls, sessions>>

\* Time passes
Tick ==
    /\ now + TickMinutes <= MaxTicks * TickMinutes
    /\ now' = now + TickMinutes
    /\ UNCHANGED <<users, profiles, jobs, contents, job_seq, content_seq, reqs,
                   last, tokens, calls, sessions>>

Register(email, password, salt) ==
    LET out == register(users, email, password, salt) IN
    /\ Len(out.users) <= MaxUsers
    /\ users' = out.users
    /\ last' = AuthResponse("register", email, password, out.status, out.rows)
    /\ UNCHANGED <<profiles, jobs, contents, job_seq, content_seq, reqs, now, tokens, calls, sessions>>

Login(email, password) ==
    LET out == login(users, email, password) IN
    /\ users' = out.users
    /\ last' = AuthResponse("login", email, password, out.status, out.rows)
    /\ tokens' = IF out.status = HTTP_200_OK
                 THEN tokens \cup {create_access_token(email, out.rows[1], now)}
                 ELSE tokens
    /\ Cardinality(tokens') <= MaxTokens
    /\ UNCHANGED <<profiles, jobs, contents, job_seq, content_seq, reqs, now, calls, sessions>>

DeactivateUser(user_id) ==
    /\ users' = deactivate_user(users, user_id)
    /\ last' = Response("deactivate_user", user_id, 0, HTTP_200_OK, <<>>)
    /\ UNCHANGED <<profiles, jobs, contents, job_seq, content_seq, reqs, now, tokens, calls, sessions>>

----------------------------------------------------------------------------
(* Initial state: an empty database but for two registered users *)

Versions == 1..(MaxProfiles + 1)
Limits == {1, 10}

Init ==
    /\ users = << User("alice@example.com", get_password_hash("Password123", "salt1")),
                  User("bob@example.com", get_password_hash("hunter2hunter2", "salt2")) >>
    /\ profiles = <<>>
    /\ jobs = {}
    /\ contents = {}
    /\ job_seq = 0
    /\ content_seq = 0
    /\ reqs = [s \in {1, 2} |-> Idle]
    /\ last = NoResponse
    /\ now = 0
    /\ tokens = {}
    /\ calls = <<>>
    /\ sessions = <<>>

Next ==
    \/ \E u \in UserIds, d \in ProfileInputs : CreateProfile(u, d, MaxProfiles)
    \/ \E u \in UserIds, d \in ProfileInputs : UpdateProfile(u, d, MaxProfiles)
    \/ \E u \in UserIds, v \in Versions : RevertProfile(u, v, MaxProfiles)
    \/ \E u \in UserIds, x \in ImportInputs : ImportProfile(u, x, MaxProfiles)
    \/ \E u \in UserIds : GetProfile(u, MaxProfiles)
    \/ \E u \in UserIds, limit \in Limits : GetProfileHistory(u, limit, MaxProfiles)

Spec == Init /\ [][Next]_vars

\* The job and content routes, with the profile routes they depend on
OwnRowsLeft == MaxOwnRows - job_seq - content_seq

NextOwn ==
    \/ \E u \in UserIds, d \in ConcProfileInputs : CreateProfile(u, d, OwnRowsLeft)
    \/ \E u \in UserIds, d \in ConcProfileInputs : UpdateProfile(u, d, OwnRowsLeft)
    \/ \E u \in UserIds, v \in 1..(Len(profiles) + 1) : RevertProfile(u, v, OwnRowsLeft)
    \/ \E u \in UserIds, x \in ConcImportInputs : ImportProfile(u, x, OwnRowsLeft)
    \/ \E u \in UserIds : GetProfile(u, OwnRowsLeft)
    \/ \E u \in UserIds, limit \in {10} : GetProfileHistory(u, limit, OwnRowsLeft)
    \/ \E u \in UserIds, has_input \in BOOLEAN, reply \in Replies :
           AnalyzeJob(u, has_input, reply)
    \/ \E u \in UserIds : JobHistory(u)
    \/ \E u \in UserIds, id \in JobArgs : GetJob(u, id)
    \/ \E u \in UserIds, id \in JobArgs : DeleteJob(u, id)
    \/ \E u \in UserIds, id \in JobArgs, reply \in TextReplies : Keywords(u, id, reply)
    \/ \E u \in UserIds, id \in JobArgs, cv_reply \in TextReplies, gap_reply \in Replies :
           GenerateCV(u, id, cv_reply, gap_reply)
    \/ \E u \in UserIds, id \in {0} \cup JobArgs, context \in Contexts,
          reply \in TextReplies :
           GenerateBio(u, id, context, reply)
    \/ \E u \in UserIds : GenerationHistory(u)
    \/ \E u \in UserIds, id \in ContentArgs : GetContent(u, id)
    \/ \E u \in UserIds, id \in ContentArgs, f \in {"markdown", "pdf"} :
           ExportContent(u, id, f)
    \/ \E u \in UserIds, id \in ContentArgs : DeleteContent(u, id)

SpecOwn == Init /\ [][NextOwn]_vars

\* Registration and login, from an empty users table
InitAuth ==
    /\ users = <<>>
    /\ profiles = <<>>
    /\ jobs = {}
    /\ contents = {}
    /\ job_seq = 0
    /\ content_seq = 0
    /\ reqs = [s \in {1, 2} |-> Idle]
    /\ last = NoResponse
    /\ now = 0
    /\ tokens = {}
    /\ calls = <<>>
    /\ sessions = <<>>

NextAuth ==
    \/ \E email \in Emails, password \in Passwords, salt \in Salts :
           Register(email, password, salt)
    \/ \E email \in Emails \cup {UnknownEmail}, password \in Passwords :
           Login(email, password)
    \/ \E user_id \in UserIds : DeactivateUser(user_id)

SpecAuth == InitAuth /\ [][NextAuth]_vars

\* Login, the passing of time and requests that carry a bearer token
NextToken ==
    \/ \E email \in Emails, password \in {"Password123", "hunter2hunter2"} :
           Login(email, password)
    \/ \E credentials \in Credentials, at_expiry \in BOOLEAN :
           Me(credentials, at_expiry)
    \/ \E credentials \in Credentials, at_expiry \in BOOLEAN, d \in ConcProfileInputs :
           PutProfile(credentials, at_expiry, d)
    \/ \E user_id \in UserIds : DeactivateUser(user_id)
    \/ Tick

SpecToken == Init /\ [][NextToken]_vars

\* The agents' methods on their own, given every reply up to MaxReplyLen
Texts == UNION {[1..n -> Chars] : n \in 0..MaxReplyLen}

AgentReplies == {Reply(t) : t \in Texts} \cup {Failure}

AgentResponse(op, result) == [op |-> op, result |-> result]

\* calls holds the replies the remote model is going to give
InitAgent ==
    /\ users = <<>>
    /\ profiles = <<>>
    /\ jobs = {}
    /\ contents = {}
    /\ job_seq = 0
    /\ content_seq = 0
    /\ reqs = [s \in {1, 2} |-> Idle]
    /\ last = NoResponse
    /\ now = 0
    /\ tokens = {}
    /\ calls \in {<<reply>> : reply \in AgentReplies}
                \cup {<<cv_reply, gap_reply>> :
                          cv_reply \in TextReplies, gap_reply \in AgentReplies}
    /\ sessions = <<>>

RunAnalyzeJobPosting ==
    /\ last = NoResponse /\ Len(calls) = 1
    /\ last' = AgentResponse("analyze_job_posting", analyze_job_posting(TRUE, calls[1]))
    /\ UNCHANGED <<users, profiles, jobs, contents, job_seq, content_seq, reqs,
                   now, tokens, calls, sessions>>

RunAnalyzeProfileGaps ==
    /\ last = NoResponse /\ Len(calls) = 1
    /\ last' = AgentResponse("analyze_profile_gaps", analyze_profile_gaps(calls[1]))
    /\ UNCHANGED <<users, profiles, jobs, contents, job_seq, content_seq, reqs,
                   now, tokens, calls, sessions>>

\* calls is cut down to the replies the method has awaited
RunGenerateTailoredCV ==
    /\ last = NoResponse /\ Len(calls) = 2
    /\ last' = AgentResponse("generate_tailored_cv",
                             CVTailorAgent_generate_tailored_cv(calls[1], calls[2]))
    /\ calls' = IF calls[1].failed THEN <<calls[1]>> ELSE calls
    /\ UNCHANGED <<users, profiles, jobs, contents, job_seq, content_seq, reqs,
                   now, tokens, sessions>>

NextAgent ==
    \/ RunAnalyzeJobPosting
    \/ RunAnalyzeProfileGaps
    \/ RunGenerateTailoredCV

SpecAgent == InitAgent /\ [][NextAgent]_vars

----------------------------------------------------------------------------
(* JobAnalyzerAgent._clean_job_text. A text is a sequence of the pieces    *)
(* the method's patterns tell apart: a whitespace character, a word that   *)
(* belongs to no pattern, and the literals of the patterns. Two of the     *)
(* seven section-start patterns and two of the ten noise patterns are      *)
(* modelled, kept in the order of their lists: the texts hold the literals *)
(* of no other pattern.                                                    *)

Whitespace == {" ", "\n"}

\* re.sub(r'\s+', ' ', text)
RECURSIVE CollapseWhitespace(_)
CollapseWhitespace(text) ==
    IF text = <<>> THEN <<>>
    ELSE IF Head(text) \in Whitespace
         THEN IF Len(text) > 1 /\ text[2] \in Whitespace
              THEN CollapseWhitespace(Tail(text))
              ELSE <<" ">> \o CollapseWhitespace(Tail(text))
         ELSE <<Head(text)>> \o CollapseWhitespace(Tail(text))

Least(S) == CHOOSE x \in S : \A y \in S : x <= y

\* r'Microsoft.*?hiring\s+(.*?)\s+in\s+(.*?)\s+\|' on a text whose
\* whitespace is collapsed: the places where "\s+\|" can close a match
\* whose "\s+in\s+" begins at b, where "\s+in\s+" can begin after the
\* "hiring" at q, where "hiring" can stand after the "Microsoft" at p, and
\* where the match can start
PipeEnds(text, b) ==
    {c \in (b + 3)..(Len(text) - 1) : text[c] = " " /\ text[c + 1] = "|"}

InBegins(text, q) ==
    {b \in (q + 2)..(Len(text) - 2) :
        /\ text[b] = " " /\ text[b + 1] = "in" /\ text[b + 2] = " "
        /\ PipeEnds(text, b) # {}}

Hirings(text, p) ==
    {q \in (p + 1)..(Len(text) - 1) :
        /\ text[q] = "hiring" /\ text[q + 1] = " "
        /\ InBegins(text, q) # {}}

MatchStarts(text) ==
    {p \in 1..Len(text) : text[p] = "Microsoft" /\ Hirings(text, p) # {}}

NoMatch == [matched |-> FALSE, group1 |-> <<>>, group2 |-> <<>>]

\* re.search: the leftmost start, and each lazy ".*?" as short as a match
\* allows
company_match(text) ==
    IF MatchStarts(text) = {} THEN NoMatch
    ELSE LET p == Least(MatchStarts(text))
             q == Least(Hirings(text, p))
             b == Least(InBegins(text, q))
             c == Least(PipeEnds(text, b))
         IN  [matched |-> TRUE,
              group1 |-> SubSeq(text, q + 2, b - 1),
              group2 |-> SubSeq(text, b + 3, c - 1)]

header_info(text) ==
    LET m == company_match(text)
    IN  IF m.matched
        THEN <<"Company:", " ", "Microsoft", "\n", "Job Title:", " ">>
             \o m.group1 \o <<"\n", "Location:", " ">>
             \o m.group2 \o <<"\n", "\n">>
        ELSE <<>>

job_start_patterns == <<"Qualifications", "Job Description">>

Occurs(text, literal) == \E i \in 1..Len(text) : text[i] = literal

FirstOf(text, literal) == Least({i \in 1..Len(text) : text[i] = literal})

\* the text from the match of the first pattern of the list that matches
RECURSIVE job_content(_, _)
job_content(text, patterns) ==
    IF patterns = <<>> THEN text
    ELSE IF Occurs(text, Head(patterns))
         THEN SubSeq(text, FirstOf(text, Head(patterns)), Len(text))
         ELSE job_content(text, Tail(patterns))

\* re.sub(r'Apply now.*?$', '', ...): from the literal to the end
RemoveToEnd(text, literal) ==
    IF Occurs(text, literal) THEN SubSeq(text, 1, FirstOf(text, literal) - 1)
    ELSE text

\* re.sub(r'Join to apply.*?Join now', '', ...): every span from an opening
\* literal to the next closing one, left to right
RECURSIVE RemoveSpans(_, _, _)
RemoveSpans(text, open, close) ==
    IF text = <<>> THEN <<>>
    ELSE IF Head(text) = open /\ Occurs(Tail(text), close)
         THEN RemoveSpans(SubSeq(text, FirstOf(Tail(text), close) + 2, Len(text)),
                          open, close)
         ELSE <<Head(text)>> \o RemoveSpans(Tail(text), open, close)

noise_patterns(text) ==
    RemoveSpans(RemoveToEnd(text, "Apply now"), "Join to apply", "Join now")

\* str.strip()
strip(text) ==
    LET Solid == {i \in 1..Len(text) : text[i] \notin Whitespace}
    IN  IF Solid = {} THEN <<>>
        ELSE SubSeq(text, Least(Solid), CHOOSE i \in Solid : \A j \in Solid : j <= i)

\* _clean_job_text without the final strip()
_clean_job_text_NoStrip(text) ==
    LET collapsed == CollapseWhitespace(text)
    IN  header_info(collapsed)
        \o noise_patterns(job_content(collapsed, job_start_patterns))

_clean_job_text(text) ==
    LET collapsed == CollapseWhitespace(text)
    IN  header_info(collapsed)
        \o strip(noise_patterns(job_content(collapsed, job_start_patterns)))

\* The method on its own, given every text of up to MaxSegments segments
HeaderLine ==
    <<"Microsoft", "hiring", " ", "x", " ", "in", " ", "x", " ", "|">>

Segments ==
    {HeaderLine, <<"Qualifications">>, <<"Job Description">>, <<"Apply now">>,
     <<"Join to apply">>, <<"Join now">>, <<"x">>, <<" ">>}

RECURSIVE Joined(_)
Joined(segments) ==
    IF segments = <<>> THEN <<>> ELSE Head(segments) \o Joined(Tail(segments))

JobTexts ==
    {Joined(segments) : segments \in UNION {[1..n -> Segments] : n \in 0..MaxSegments}}

\* text is what the method was first given, runs the times it has run,
\* once what its first run returned and cleaned what its last run returned
Cleaning(text, runs, once, cleaned) ==
    [op |-> "_clean_job_text", text |-> text, runs |-> runs, once |-> once,
     cleaned |-> cleaned]

InitClean ==
    /\ users = <<>>
    /\ profiles = <<>>
    /\ jobs = {}
    /\ contents = {}
    /\ job_seq = 0
    /\ content_seq = 0
    /\ reqs = [s \in {1, 2} |-> Idle]
    /\ last \in {Cleaning(text, 0, text, text) : text \in JobTexts}
    /\ now = 0
    /\ tokens = {}
    /\ calls = <<>>
    /\ sessions = <<>>

CleanJobText ==
    /\ last.runs = 0
    /\ last' = LET cleaned == _clean_job_text(last.text)
               IN  Cleaning(last.text, 1, cleaned, cleaned)
    /\ UNCHANGED <<users, profiles, jobs, contents, job_seq, content_seq, reqs,
                   now, tokens, calls, sessions>>

CleanCleanedText ==
    /\ last.runs = 1
    /\ last' = Cleaning(last.text, 2, last.once, _clean_job_text(last.cleaned))
    /\ UNCHANGED <<users, profiles, jobs, contents, job_seq, content_seq, reqs,
                   now, tokens, calls, sessions>>

NextClean ==
    \/ CleanJobText
    \/ CleanCleanedText

SpecClean == InitClean /\ [][NextClean]_vars

----------------------------------------------------------------------------
(* Session.delete(user) under the cascades the models declare. No route    *)
(* and no repository method deletes a user; this is the unit of work the   *)
(* ORM runs for such a delete.                                              *)

\* What users holds in the place of a deleted row
DeletedUser == [deleted |-> TRUE]

Existing == {u \in UserIds : users[u] # DeletedUser}

\* User.profiles, User.job_analyses and User.generated_content cascade
\* "all, delete-orphan": the rows of the user are deleted with it.
\* JobAnalysis.generated_content has no delete cascade: a row that refers
\* to a deleted analysis is kept and its job_analysis_id set to NULL.
delete_user(U, P, J, C, u) ==
    LET deleted_jobs == {j.id : j \in {x \in J : x.user_id = u}} IN
    [users |-> [i \in 1..Len(U) |-> IF i = u THEN DeletedUser ELSE U[i]],
     profiles |-> SelectSeq(P, LAMBDA p : p.user_id # u),
     jobs |-> {j \in J : j.user_id # u},
     contents |-> {IF c.job_analysis_id \in deleted_jobs
                   THEN [c EXCEPT !.job_analysis_id = Null] ELSE c :
                       c \in {x \in C : x.user_id # u}}]

DeleteUser(u) ==
    /\ u \in Existing
    /\ LET out == delete_user(users, profiles, jobs, contents, u) IN
       /\ users' = out.users
       /\ profiles' = out.profiles
       /\ jobs' = out.jobs
       /\ contents' = out.contents
    /\ last' = Response("delete_user", u, 0, HTTP_200_OK, <<>>)
    /\ calls' = <<>>
    /\ UNCHANGED <<job_seq, content_seq, reqs, now, tokens, sessions>>

\* The routes that store rows, called by users that exist, and the delete
DeleteRowsLeft == MaxDeleteRows - job_seq - content_seq

NextDelete ==
    \/ \E u \in Existing, d \in ConcProfileInputs :
           CreateProfile(u, d, DeleteRowsLeft)
    \/ \E u \in Existing :
           AnswerWithin("analyze", u, 1,
               analyze_job_posting_route(jobs, contents, job_seq, u, TRUE,
                                         Reply(<<"{", "m", "}">>)),
               MaxDeleteRows)
    \/ \E u \in Existing, id \in {0} \cup JobArgs :
           AnswerWithin("generate_bio", u, id,
               generate_professional_bio(jobs, contents, profiles, content_seq,
                                         u, id, "presentation", Reply(<<"x">>)),
               MaxDeleteRows)
    \/ \E u \in Existing : DeleteUser(u)

SpecDelete == Init /\ [][NextDelete]_vars

----------------------------------------------------------------------------
(* The profile-writing routes interleaved. A request holds what its        *)
(* SELECTs returned until its commit; the commit writes the UPDATE of the  *)
(* row it read as active and the INSERT of its new row.                    *)

\* Two requests may overlap; a new request takes the lowest idle slot
Slots == {1, 2}

Request(op, pc, u, d, x, version, target, current) ==
    [op |-> op, pc |-> pc, user |-> u, data |-> d, import_data |-> x,
     version |-> version, target |-> target, current |-> current]

\* The handler of request r on table P, with the rows r has read
Handler(r, P) ==
    CASE r.op = "create" -> create_user_profile(P, r.user, r.data, r.current)
      [] r.op = "update" -> update_user_profile(P, r.user, r.data, r.current)
      [] r.op = "revert" -> revert_to_profile_version(P, r.user, r.target, r.current)
      [] r.op = "import" -> import_profile_data(P, r.user, r.import_data, r.current)

\* After a SELECT: the handler has raised (respond now) or goes on to pc
Proceed(s, r, pc) ==
    LET out == Handler(r, profiles) IN
    IF out.status # HTTP_200_OK
    THEN /\ last' = Response(r.op, r.user, r.version, out.status, out.rows)
         /\ reqs' = [reqs EXCEPT ![s] = Idle]
    ELSE /\ reqs' = [reqs EXCEPT ![s] = [r EXCEPT !.pc = pc]]
         /\ last' = last

ConcCreate(s, u, d) ==
    /\ reqs[s] = Idle
    /\ \A t \in Slots : t < s => reqs[t] # Idle
    /\ Proceed(s, Request("create", "start", u, d, Idle.import_data, 0, None,
                          scalar_one_or_none(ActiveRows(profiles, u))), "commit")
    /\ UNCHANGED <<users, profiles, jobs, contents, job_seq, content_seq, now, tokens, calls, sessions>>

ConcUpdate(s, u, d) ==
    /\ reqs[s] = Idle
    /\ \A t \in Slots : t < s => reqs[t] # Idle
    /\ Proceed(s, Request("update", "start", u, d, Idle.import_data, 0, None,
                          scalar_one_or_none(ActiveRows(profiles, u))), "commit")
    /\ UNCHANGED <<users, profiles, jobs, contents, job_seq, content_seq, now, tokens, calls, sessions>>

ConcImport(s, u, x) ==
    /\ reqs[s] = Idle
    /\ \A t \in Slots : t < s => reqs[t] # Idle
    /\ Proceed(s, Request("import", "start", u, Idle.data, x, 0, None,
                          scalar_one_or_none(ActiveRows(profiles, u))), "commit")
    /\ UNCHANGED <<users, profiles, jobs, contents, job_seq, content_seq, now, tokens, calls, sessions>>

\* revert's first SELECT, of the target version
ConcRevert(s, u, version) ==
    /\ reqs[s] = Idle
    /\ \A t \in Slots : t < s => reqs[t] # Idle
    /\ Proceed(s, Request("revert", "start", u, Idle.data, Idle.import_data, version,
                          scalar_one_or_none(VersionRows(profiles, u, version)), None),
               "read_current")
    /\ UNCHANGED <<users, profiles, jobs, contents, job_seq, content_seq, now, tokens, calls, sessions>>

\* revert's second SELECT, of the active row
ConcReadCurrent(s) ==
    /\ reqs[s].pc = "read_current"
    /\ Proceed(s, [reqs[s] EXCEPT
                     !.current = scalar_one_or_none(ActiveRows(profiles, reqs[s].user))],
               "commit")
    /\ UNCHANGED <<users, profiles, jobs, contents, job_seq, content_seq, now, tokens, calls, sessions>>

\* db.add(...); await db.commit()
ConcCommit(s) ==
    /\ reqs[s].pc = "commit"
    /\ Complete(reqs[s].op, reqs[s].user, reqs[s].version, Handler(reqs[s], profiles),
                MaxConcProfiles)
    /\ reqs' = [reqs EXCEPT ![s] = Idle]
    /\ UNCHANGED <<users, jobs, contents, job_seq, content_seq, now, tokens, calls, sessions>>


NextConc ==
    \/ \E s \in Slots, u \in UserIds, d \in ConcProfileInputs : ConcCreate(s, u, d)
    \/ \E s \in Slots, u \in UserIds, d \in ConcProfileInputs : ConcUpdate(s, u, d)
    \/ \E s \in Slots, u \in UserIds, x \in ConcImportInputs : ConcImport(s, u, x)
    \/ \E s \in Slots, u \in UserIds, v \in 1..(Len(profiles) + 1) : ConcRevert(s, u, v)
    \/ \E s \in Slots : ConcReadCurrent(s)
    \/ \E s \in Slots : ConcCommit(s)

SpecConc == Init /\ [][NextConc]_vars

----------------------------------------------------------------------------
(* get_db: the session of a request. FastAPI calls the dependency once per *)
(* request; the handler and the other dependencies of the request use the  *)
(* session it yields.                                                       *)

\* How the code that runs between the yield and the finally ends
Outcomes == {"returned", "HTTPException", "Exception"}

\* async_session_factory(): a new session, held by the request of slot s
Session(s) == [owner |-> s, open |-> TRUE]

SessionRequest(pc, session, outcome) ==
    [op |-> "get_db", pc |-> pc, session |-> session, outcome |-> outcome]

\* Mutant: close() leaves the session open
session_close_Noop(S, id) == S

\* AsyncSession.close(); closing a closed session changes nothing
session_close(S, id) == [S EXCEPT ![id].open = FALSE]

\* async with async_session_factory() as session: ... yield session
Acquire(s) ==
    /\ reqs[s] = Idle
    /\ Len(sessions) < MaxSessions
    /\ sessions' = Append(sessions, Session(s))
    /\ reqs' = [reqs EXCEPT ![s] = SessionRequest("yield", Len(sessions) + 1, "none")]
    /\ UNCHANGED <<users, profiles, jobs, contents, job_seq, content_seq, last,
                   now, tokens, calls>>

\* The dependencies and the handler return, or one of them raises
Finish(s, outcome) ==
    /\ reqs[s].pc = "yield"
    /\ reqs' = [reqs EXCEPT ![s] = [reqs[s] EXCEPT !.pc = "finally", !.outcome = outcome]]
    /\ UNCHANGED <<users, profiles, jobs, contents, job_seq, content_seq, last,
                   now, tokens, calls, sessions>>

\* finally: await session.close()
Finally(s) ==
    /\ reqs[s].pc = "finally"
    /\ sessions' = session_close(sessions, reqs[s].session)
    /\ reqs' = [reqs EXCEPT ![s] = [reqs[s] EXCEPT !.pc = "aexit"]]
    /\ UNCHANGED <<users, profiles, jobs, contents, job_seq, content_seq, last,
                   now, tokens, calls>>

\* The end of the async with block closes the session once more; then the
\* request is over
Exit(s) ==
    /\ reqs[s].pc = "aexit"
    /\ sessions' = session_close(sessions, reqs[s].session)
    /\ reqs' = [reqs EXCEPT ![s] = Idle]
    /\ last' = Response("get_db", 0, reqs[s].session,
                        CASE reqs[s].outcome = "returned" -> HTTP_200_OK
                          [] reqs[s].outcome = "HTTPException" -> HTTP_404_NOT_FOUND
                          [] OTHER -> HTTP_500_INTERNAL_SERVER_ERROR,
                        <<>>)
    /\ UNCHANGED <<users, profiles, jobs, contents, job_seq, content_seq,
                   now, tokens, calls>>

NextSession ==
    \/ \E s \in Slots : Acquire(s)
    \/ \E s \in Slots, outcome \in Outcomes : Finish(s, outcome)
    \/ \E s \in Slots : Finally(s)
    \/ \E s \in Slots : Exit(s)

SpecSession == Init /\ [][NextSession]_vars

\* The event loop runs every task that can run, and the code between the
\* yield and the finally comes to an end
SpecSessionLive ==
    /\ SpecSession
    /\ \A s \in Slots :
           /\ WF_vars(\E outcome \in Outcomes : Finish(s, outcome))
           /\ WF_vars(Finally(s))
           /\ WF_vars(Exit(s))

----------------------------------------------------------------------------
(* POST /api/generate/cv, one await at a time. The request keeps the calls *)
(* it has sent to the remote model and the replies it has got.             *)

Sent(prompt) == [prompt |-> prompt, returned |-> FALSE]

Returned(prompt) == [prompt |-> prompt, returned |-> TRUE]

CVRequest(pc, u, job_analysis_id, sent, replies) ==
    [op |-> "generate_cv", pc |-> pc, user |-> u, job_analysis_id |-> job_analysis_id,
     sent |-> sent, replies |-> replies]

\* Mutant: the gap-analysis prompt is sent together with the CV prompt
run_cv_prompt_WithGap == <<Sent("cv"), Sent("gap")>>

\* result = await self.agent.run(cv_prompt): what is in flight while the
\* method waits
run_cv_prompt == <<Sent("cv")>>

\* The request is answered: it leaves its slot
RespondCV(s, u, job_analysis_id, eff) ==
    /\ jobs' = eff.jobs
    /\ contents' = eff.contents
    /\ content_seq' = IF Cardinality(eff.contents) > Cardinality(contents)
                      THEN content_seq + 1 ELSE content_seq
    /\ last' = Response("generate_cv", u, job_analysis_id, eff.status, eff.rows)
    /\ calls' = eff.calls
    /\ reqs' = [reqs EXCEPT ![s] = Idle]
    /\ UNCHANGED <<users, profiles, job_seq, now, tokens, sessions>>

\* The two SELECTs; with both rows found the CV prompt is sent
StartCV(s, u, job_analysis_id) ==
    /\ reqs[s] = Idle
    /\ LET job_analysis == OwnedRow(jobs, job_analysis_id, u)
           user_profile == scalar_one_or_none(ActiveRows(profiles, u))
       IN  IF job_analysis = None \/ user_profile = None
                \/ user_profile = MultipleResultsFound
           THEN RespondCV(s, u, job_analysis_id,
                    generate_tailored_cv(jobs, contents, profiles, content_seq, u,
                                         job_analysis_id, Failure, Failure))
           ELSE /\ reqs' = [reqs EXCEPT ![s] =
                                CVRequest("cv", u, job_analysis_id, run_cv_prompt, <<>>)]
                /\ UNCHANGED <<users, profiles, jobs, contents, job_seq, content_seq,
                               last, now, tokens, calls, sessions>>

\* The reply to the CV prompt: a failure leaves the agent and the route
\* answers; else analyze_profile_gaps sends its prompt
CVReply(s, reply) ==
    /\ reqs[s].op = "generate_cv" /\ reqs[s].pc = "cv"
    /\ LET r == reqs[s] IN
       IF reply.failed
       THEN RespondCV(s, r.user, r.job_analysis_id,
                generate_tailored_cv(jobs, contents, profiles, content_seq, r.user,
                                     r.job_analysis_id, reply, Failure))
       ELSE /\ reqs' = [reqs EXCEPT ![s] =
                            CVRequest("gap", r.user, r.job_analysis_id,
                                      <<Returned("cv")>> \o SubSeq(r.sent, 2, Len(r.sent))
                                          \o <<Sent("gap")>>,
                                      <<reply>>)]
            /\ UNCHANGED <<users, profiles, jobs, contents, job_seq, content_seq,
                           last, now, tokens, calls, sessions>>

\* The reply to the gap-analysis prompt: a failure leaves the agent and
\* the route answers; else the route goes on to store the content
GapReply(s, reply) ==
    /\ reqs[s].op = "generate_cv" /\ reqs[s].pc = "gap"
    /\ LET r == reqs[s] IN
       IF reply.failed
       THEN RespondCV(s, r.user, r.job_analysis_id,
                generate_tailored_cv(jobs, contents, profiles, content_seq, r.user,
                                     r.job_analysis_id, r.replies[1], reply))
       ELSE /\ reqs' = [reqs EXCEPT ![s] =
                            CVRequest("commit", r.user, r.job_analysis_id,
                                      [i \in 1..Len(r.sent) |-> Returned(r.sent[i].prompt)],
                                      r.replies \o <<reply>>)]
            /\ UNCHANGED <<users, profiles, jobs, contents, job_seq, content_seq,
                           last, now, tokens, calls, sessions>>

\* db.add(generated_content); await db.commit()
CommitCV(s) ==
    /\ reqs[s].op = "generate_cv" /\ reqs[s].pc = "commit"
    /\ LET r == reqs[s] IN
       RespondCV(s, r.user, r.job_analysis_id,
                 StoreGenerated(jobs, contents, content_seq, r.user, r.job_analysis_id,
                                "cv", r.replies))

CVRowsLeft == MaxCVRows - job_seq - content_seq

NextCV ==
    \/ \E u \in UserIds, d \in ConcProfileInputs : CreateProfile(u, d, CVRowsLeft)
    \/ \E u \in UserIds :
           AnswerWithin("analyze", u, 1,
               analyze_job_posting_route(jobs, contents, job_seq, u, TRUE,
                                         Reply(<<"{", "m", "}">>)),
               MaxCVRows)
    \/ \E s \in Slots, u \in UserIds, id \in JobArgs : StartCV(s, u, id)
    \/ \E s \in Slots, reply \in TextReplies : CVReply(s, reply)
    \/ \E s \in Slots, reply \in Replies : GapReply(s, reply)
    \/ \E s \in Slots : CommitCV(s)

SpecCV == Init /\ [][NextCV]_vars

----------------------------------------------------------------------------
(* POST /api/auth/register step by step: the SELECT by email and the
   INSERT are separate statements, and two requests may interleave *)

\* A registration that found no user with its email and has yet to insert
RegisterRequest(email, password, salt) ==
    [op |-> "register", pc |-> "commit", email |-> email,
     password |-> password, salt |-> salt]

\* Mutant: the users table has no unique index on email
commit_user_NoUniqueIndex(U, email, password, salt) ==
    [users |-> create_user(U, email, password, salt), status |-> HTTP_200_OK,
     rows |-> <<Len(U) + 1>>]

\* session.commit() of create_user: email is unique=True, so the INSERT of
\* an email that is stored by now raises IntegrityError, which register
\* does not catch
commit_user(U, email, password, salt) ==
    IF \E i \in 1..Len(U) : U[i].email = email
    THEN [users |-> U, status |-> HTTP_500_INTERNAL_SERVER_ERROR, rows |-> <<>>]
    ELSE [users |-> create_user(U, email, password, salt), status |-> HTTP_200_OK,
          rows |-> <<Len(U) + 1>>]

\* The request is validated and get_user_by_email runs: an error is
\* answered at once, otherwise the request goes on to create_user
RegisterCheck(s, email, password, salt) ==
    /\ reqs[s] = Idle
    /\ LET out == register(users, email, password, salt) IN
       IF out.status # HTTP_200_OK
       THEN /\ last' = AuthResponse("register", email, password, out.status, out.rows)
            /\ UNCHANGED reqs
       ELSE /\ reqs' = [reqs EXCEPT ![s] = RegisterRequest(email, password, salt)]
            /\ UNCHANGED last
    /\ UNCHANGED <<users, profiles, jobs, contents, job_seq, content_seq, now,
                   tokens, calls, sessions>>

\* create_user adds the row and commits
RegisterCommit(s) ==
    /\ reqs[s] # Idle /\ reqs[s].pc = "commit"
    /\ LET r == reqs[s]
           out == commit_user(users, r.email, r.password, r.salt)
       IN  /\ Len(out.users) <= MaxUsers
           /\ users' = out.users
           /\ last' = AuthResponse("register", r.email, r.password, out.status, out.rows)
    /\ reqs' = [reqs EXCEPT ![s] = Idle]
    /\ UNCHANGED <<profiles, jobs, contents, job_seq, content_seq, now, tokens,
                   calls, sessions>>

NextRegister ==
    \/ \E s \in Slots, email \in Emails \cup {UnknownEmail}, password \in Passwords,
          salt \in Salts : RegisterCheck(s, email, password, salt)
    \/ \E s \in Slots : RegisterCommit(s)

SpecRegister == InitAuth /\ [][NextRegister]_vars

----------------------------------------------------------------------------
(* Properties of profile versioning *)

ActiveCount(u) == Cardinality(ActiveRows(profiles, u))

MaxVersion(P, u) ==
    IF UserRows(P, u) = {} THEN 0
    ELSE LET top == CHOOSE i \in UserRows(P, u) :
                        \A j \in UserRows(P, u) : P[j].version <= P[i].version
         IN  P[top].version

\* C1: with the requests run one at a time, each to completion, no user ever
\* has more than one row with is_active = true.
C1_AtMostOneActive == \A u \in UserIds : ActiveCount(u) <= 1

\* C1 witness: a create, an update and a revert of one user have completed.
C1_Witness ==
    /\ last.op = "revert" /\ last.status = HTTP_200_OK
    /\ Cardinality(UserRows(profiles, last.user)) >= 3
    /\ ActiveCount(last.user) = 1

\* C2: when profile-writing requests of one user overlap, the committed
\* table still has at most one active row for that user and no two rows of
\* that user with the same version.
C2_OverlapKeepsOneActive ==
    \A u \in UserIds :
        /\ ActiveCount(u) <= 1
        /\ \A i, j \in UserRows(profiles, u) :
               i # j => profiles[i].version # profiles[j].version

\* A request of kind op in slot s commits in this step
Commits(s, op) ==
    /\ reqs[s].op = op /\ reqs[s].pc = "commit"
    /\ reqs'[s] = Idle
    /\ Len(profiles') = Len(profiles) + 1

\* C3: every update that is answered has inserted a row, and the version of
\* that row is strictly greater than the version of every row the user had
\* before it was written.
C3_UpdateExceedsPriorMax ==
    [][(last'.op = "update" /\ last' # last) =>
         /\ Len(profiles') = Len(profiles) + 1
         /\ profiles'[Len(profiles')].user_id = last'.user
         /\ profiles'[Len(profiles')].version > MaxVersion(profiles, last'.user)]_vars

\* This step answers a revert of version last'.arg by inserting a row
RevertInserts ==
    /\ last'.op = "revert" /\ last'.status = HTTP_200_OK
    /\ Len(profiles') = Len(profiles) + 1

\* What a successful revert inserts: an active row, at the next version
\* number, with the data of the target row t
RevertedRow(t) ==
    LET new == profiles'[Len(profiles')] IN
    /\ new.user_id = last'.user
    /\ new.is_active
    /\ new.version = MaxVersion(profiles, last'.user) + 1
    /\ new.profile_data = profiles[t].profile_data

C5_RejectedCreateIsClientError ==
    (last.op = "create" /\ last.status # HTTP_200_OK)
        => last.status = HTTP_400_BAD_REQUEST

\* C6: update with valid profile data succeeds in every reachable state.
C6_UpdateAlwaysSucceeds ==
    last.op = "update" => last.status = HTTP_200_OK

\* C7: a row, once in user_profiles, stays there with the same user_id,
\* version and profile_data; is_active only ever goes from true to false,
\* and only on the row that the committing update, revert or import read
\* as the active one.
C7_AppendOnly ==
    [][/\ Len(profiles') >= Len(profiles)
       /\ \A i \in ProfileIds(profiles) :
            /\ profiles'[i].user_id = profiles[i].user_id
            /\ profiles'[i].version = profiles[i].version
            /\ profiles'[i].profile_data = profiles[i].profile_data
            /\ profiles'[i].is_active => profiles[i].is_active
            /\ profiles'[i].is_active # profiles[i].is_active =>
                 \E s \in Slots :
                     /\ reqs[s].op \in {"update", "revert", "import"}
                     /\ reqs[s].pc = "commit" /\ reqs'[s] = Idle
                     /\ reqs[s].current = i
                     /\ profiles[i].user_id = reqs[s].user]_vars

\* C7 witness: a row has been deactivated by a later write of its user.
C7_Witness ==
    \E i \in ProfileIds(profiles) :
        /\ ~profiles[i].is_active
        /\ \E j \in UserRows(profiles, profiles[i].user_id) : j > i

\* C8: a revert to a version the caller has no row of answers not-found and
\* changes no profile row.
C8_RevertMissingIsNotFound ==
    [][(/\ last'.op = "revert" /\ last' # last
        /\ VersionRows(profiles, last'.user, last'.arg) = {})
         => /\ last'.status = HTTP_404_NOT_FOUND
            /\ profiles' = profiles]_vars

\* C8 witness: a revert was refused for a version that only the other user
\* has, the caller having no rows at all.
C8_Witness ==
    /\ last.op = "revert" /\ last.status = HTTP_404_NOT_FOUND
    /\ UserRows(profiles, last.user) = {}
    /\ \E u \in UserIds : u # last.user /\ VersionRows(profiles, u, last.arg) # {}

----------------------------------------------------------------------------
(* Properties of ownership and authentication *)

NamesJob == {"get_job", "delete_job", "keywords", "generate_cv"}
NamesContent == {"get_content", "export", "delete_content"}
ProfileRequests ==
    {"get_profile", "profile_history", "create", "update", "revert", "import"}

\* The request answered in this step names a row of T that another user owns
NamesForeignRow(T) ==
    \E r \in T : r.id = last'.arg /\ r.user_id # last'.user

\* C9: a request that names a job analysis or generated content of another
\* user answers not-found and changes no row; history and profile requests
\* return and change only rows of the caller.
C9_OnlyOwnRows ==
    [][/\ (last'.op \in NamesJob /\ NamesForeignRow(jobs))
            => /\ last'.status = HTTP_404_NOT_FOUND
               /\ UNCHANGED <<users, profiles, jobs, contents>>
       /\ (last'.op \in NamesContent /\ NamesForeignRow(contents))
            => /\ last'.status = HTTP_404_NOT_FOUND
               /\ UNCHANGED <<users, profiles, jobs, contents>>
       /\ last'.op = "job_history"
            => /\ \A i \in 1..Len(last'.rows) :
                      Row(jobs, last'.rows[i]).user_id = last'.user
               /\ UNCHANGED <<users, profiles, jobs, contents>>
       /\ last'.op = "generation_history"
            => /\ \A i \in 1..Len(last'.rows) :
                      Row(contents, last'.rows[i]).user_id = last'.user
               /\ UNCHANGED <<users, profiles, jobs, contents>>
       /\ last'.op \in ProfileRequests
            => /\ \A i \in 1..Len(last'.rows) :
                      profiles'[last'.rows[i]].user_id = last'.user
               /\ \A i \in ProfileIds(profiles') :
                      (i > Len(profiles) \/ profiles'[i] # profiles[i])
                          => profiles'[i].user_id = last'.user
               /\ Len(profiles') >= Len(profiles)
               /\ UNCHANGED <<users, jobs, contents>>]_vars

\* C9 witness: a delete naming a generated content of the other user was
\* answered not-found, and the row is still there.
C9_Witness ==
    /\ last.op = "delete_content" /\ last.status = HTTP_404_NOT_FOUND
    /\ \E c \in contents : c.id = last.arg /\ c.user_id # last.user

\* C10: authenticate_user returns the user stored under the email when the
\* password is the one the user was created with, and no user for any other
\* password or for an email no user has; it changes no stored state.
C10_Authenticate ==
    [][(last'.op = "login" /\ last' # last) =>
         /\ users' = users
         /\ UNCHANGED <<profiles, jobs, contents>>
         /\ LET created == {i \in UserIds :
                              /\ users[i].email = last'.email
                              /\ \E salt \in Salts :
                                     users[i].password_hash =
                                         get_password_hash(last'.password, salt)}
            IN  IF created = {} THEN last'.rows = <<>>
                ELSE \E i \in created : last'.rows = <<i>>]_vars

\* C10 witness: a login with a wrong password for a stored user was refused
\* after a login of that user had been possible.
C10_Witness ==
    /\ last.op = "login" /\ last.rows = <<>>
    /\ \E i \in UserIds :
           /\ users[i].email = last.email
           /\ ~verify_password(last.password, users[i].password_hash)

----------------------------------------------------------------------------
(* Properties of bearer tokens *)

\* This step answers a request that carried a bearer token
TokenAnswered == last'.op \in {"me", "update"} /\ last' # last

\* The request answered in this step was run as user u
ResolvesTo(u) == last'.status = HTTP_200_OK /\ last'.user = u

\* C11 as claimed: a token login issued for U resolves to U at every time
\* before its expiry and is rejected at every time after it; no bearer
\* string resolves to a user other than the one it was issued for.
C11_TokenResolvesUntilExpiry ==
    [][TokenAnswered =>
         LET c == last'.credentials IN
         /\ (c \in tokens /\ now < c.exp) => ResolvesTo(c.user_id)
         /\ (c \in tokens /\ now > c.exp) =>
                last'.status = HTTP_401_UNAUTHORIZED /\ last'.user = None
         /\ last'.user # None =>
                c \in tokens /\ last'.user = c.user_id
                             /\ users[last'.user].email = c.sub]_vars

\* C11 amended: before its expiry the token resolves to U while U is
\* active, and is answered 400 once U has been deactivated; after its
\* expiry it is rejected; it never resolves to another user.
C11_TokenResolvesWhileActive ==
    [][TokenAnswered =>
         LET c == last'.credentials IN
         /\ (c \in tokens /\ now < c.exp /\ users[c.user_id].is_active)
                => ResolvesTo(c.user_id)
         /\ (c \in tokens /\ now < c.exp /\ ~users[c.user_id].is_active)
                => last'.status = HTTP_400_BAD_REQUEST /\ last'.user = None
         /\ (c \in tokens /\ now > c.exp) =>
                last'.status = HTTP_401_UNAUTHORIZED /\ last'.user = None
         /\ last'.user # None =>
                c \in tokens /\ last'.user = c.user_id
                             /\ users[last'.user].email = c.sub]_vars

\* C11 witness: a token issued after the clock had moved was resolved to
\* its user before its expiry.
C11_Witness ==
    /\ last.op = "me" /\ last.status = HTTP_200_OK
    /\ last.credentials \in tokens
    /\ last.credentials.exp > access_token_expire_minutes
    /\ now < last.credentials.exp
    /\ last.user = last.credentials.user_id

\* The ways a bearer string fails the credential check at this moment
Expired(c) == c.kind = "jwt" /\ c.signature = "valid" /\ now > c.exp
SignatureMismatch(c) == c.kind = "jwt" /\ c.signature # "valid"
MalformedPayload(c) == c.kind # "jwt"
WithoutSubject(c) == c.kind = "jwt" /\ c.sub = NoSubject
SubjectUnknown(c) == c.kind = "jwt" /\ \A i \in UserIds : users[i].email # c.sub

\* C12: an expired token, a signature mismatch, a malformed token, a
\* payload without a subject and a subject that names no stored user are
\* all answered 401, and the handler does not run: no row changes.
C12_FailsClosed ==
    [][TokenAnswered =>
         LET c == last'.credentials IN
         (\/ Expired(c) \/ SignatureMismatch(c) \/ MalformedPayload(c)
          \/ WithoutSubject(c) \/ SubjectUnknown(c))
            => /\ last'.status = HTTP_401_UNAUTHORIZED
               /\ last'.user = None
               /\ last'.rows = <<>>
               /\ UNCHANGED <<users, profiles, jobs, contents, tokens>>]_vars

\* C12 witness: a profile update carrying a well-signed token whose subject
\* is nobody's email was refused with 401, the table holding a row already.
C12_Witness ==
    /\ last.op = "update" /\ last.status = HTTP_401_UNAUTHORIZED
    /\ last.credentials.signature = "valid"
    /\ last.credentials.sub = UnknownEmail
    /\ profiles # <<>>

----------------------------------------------------------------------------
(* Properties of the remote model's replies *)

\* A request of kind op is answered in this step
Answered(op) ==
    /\ last'.op = op
    /\ (last' # last \/ jobs' # jobs \/ contents' # contents \/ calls' # calls)

\* The brace slice of a text, said without find, rfind and slicing: the
\* part from the first "{" to the last "}" if they come in this order
HasBraceSlice(text) ==
    \E i, j \in 1..Len(text) :
        /\ i < j /\ text[i] = "{" /\ text[j] = "}"
        /\ \A k \in 1..(i - 1) : text[k] # "{"
        /\ \A k \in (j + 1)..Len(text) : text[k] # "}"

BraceSlice(text) ==
    LET i == CHOOSE i \in 1..Len(text) :
                 text[i] = "{" /\ \A k \in 1..(i - 1) : text[k] # "{"
        j == CHOOSE j \in 1..Len(text) :
                 text[j] = "}" /\ \A k \in (j + 1)..Len(text) : text[k] # "}"
    IN  SubSeq(text, i, j)

ParsesAsJson(text) == HasBraceSlice(text) /\ JsonObject(BraceSlice(text))

\* C13: when the reply to a job-analysis prompt does not parse as JSON, the
\* analyze request stores a row whose analysis_data holds the raw reply and
\* an error marker, and the caller gets a successful response.
C13_MalformedReplyStillSucceeds ==
    [][(/\ Answered("analyze") /\ calls' # <<>>
        /\ ~calls'[1].failed /\ ~ParsesAsJson(calls'[1].text))
         => /\ \E r \in jobs' \ jobs :
                  /\ r.user_id = last'.user
                  /\ DOMAIN r.analysis_data = {"raw_analysis", "error"}
                  /\ r.analysis_data.raw_analysis = calls'[1].text
            /\ last'.status = HTTP_200_OK]_vars

\* C14: when the remote call of a job analysis, a CV generation or a bio
\* generation fails, the caller gets a server error, the failed call is the
\* last one the request issues, and no row is stored.
C14_RemoteFailureIsServerError ==
    [][\A op \in {"analyze", "generate_cv", "generate_bio"} :
         (/\ Answered(op) /\ calls' # <<>>
          /\ \E i \in 1..Len(calls') : calls'[i].failed)
           => /\ last'.status = HTTP_500_INTERNAL_SERVER_ERROR
              /\ calls'[Len(calls')].failed
              /\ Cardinality({i \in 1..Len(calls') : calls'[i].failed}) = 1
              /\ jobs' = jobs /\ contents' = contents]_vars

\* C15: when the CV call succeeds and the gap-analysis call fails,
\* generate_tailored_cv still returns the CV content, with gap_analysis
\* null.
C15_GapFailureKeepsCV ==
    (/\ last.op = "generate_tailored_cv"
     /\ Len(calls) = 2 /\ ~calls[1].failed /\ calls[2].failed)
      => /\ ~last.result.raised
         /\ last.result.value.cv_content = calls[1].text
         /\ last.result.value.gap_analysis = Null

\* C16: analyze_profile_gaps returns what the slice from the first "{" to
\* the last "}" parses to; for every reply where there is no such slice or
\* it is no JSON, it returns the fixed fallback structure, and it never
\* raises.
C16_GapFallback ==
    (last.op = "analyze_profile_gaps" /\ ~calls[1].failed)
      => /\ ~last.result.raised
         /\ IF ParsesAsJson(calls[1].text)
            THEN last.result.value = [parsed |-> BraceSlice(calls[1].text)]
            ELSE last.result.value = GapFallback

\* C16 witness: a reply whose only braces come in the wrong order was
\* answered with the fallback.
C16_Witness ==
    /\ last.op = "analyze_profile_gaps"
    /\ calls = <<Reply(<<"}", "m", "{">>)>>
    /\ last.result = Return(GapFallback)

\* C17: cleaning is idempotent: the second run of _clean_job_text, on what
\* the first run returned, returns the same text.
C17_CleaningIdempotent ==
    (last.op = "_clean_job_text" /\ last.runs = 2) => last.cleaned = last.once

HasSectionStart(text) ==
    \E i \in 1..Len(job_start_patterns) : Occurs(text, job_start_patterns[i])

HasNoise(text) ==
    \/ Occurs(text, "Apply now")
    \/ \E i, j \in 1..Len(text) :
           i < j /\ text[i] = "Join to apply" /\ text[j] = "Join now"

\* C18 as stated: a text with no section-start marker is cleaned to the
\* text with each whitespace run collapsed to one space, nothing else
\* removed and nothing added.
C18_NoMarkerOnlyCollapses ==
    (/\ last.op = "_clean_job_text" /\ last.runs = 1
     /\ ~HasSectionStart(last.text))
      => last.cleaned = CollapseWhitespace(last.text)

\* C18, amended: a text in which no section-start marker, no boilerplate
\* pattern and no company header matches is cleaned to the text with each
\* whitespace run collapsed to one space and the whitespace at its two ends
\* removed.
C18_PlainTextCollapsedAndStripped ==
    (/\ last.op = "_clean_job_text" /\ last.runs = 1
     /\ ~HasSectionStart(last.text)
     /\ ~HasNoise(CollapseWhitespace(last.text))
     /\ ~company_match(CollapseWhitespace(last.text)).matched)
      => last.cleaned = strip(CollapseWhitespace(last.text))

\* C18 witness: a plain text with a run of two spaces inside was cleaned.
C18_Witness ==
    /\ last.op = "_clean_job_text" /\ last.runs = 1
    /\ last.text = <<"x", " ", " ", "x">>
    /\ last.cleaned = <<"x", " ", "x">>

HistoryRows(u, limit) == get_profile_history(profiles, u, limit).rows

\* C19: the history route gives user u only rows of u, in strictly
\* descending order of version, at most limit of them and none with a
\* version below that of a row it leaves out; after a create and one update
\* it gives the rows of versions 2 and 1, in this order, only the first
\* active.
C19_HistoryDescendingFromTop ==
    /\ \A u \in UserIds, limit \in Limits :
           LET rows == HistoryRows(u, limit) IN
           /\ \A i \in 1..Len(rows) : profiles[rows[i]].user_id = u
           /\ \A i \in 1..(Len(rows) - 1) :
                  profiles[rows[i]].version > profiles[rows[i + 1]].version
           /\ Len(rows) <= limit
           /\ \A j \in UserRows(profiles, u) :
                  (\A i \in 1..Len(rows) : rows[i] # j)
                    => /\ Len(rows) = limit
                       /\ \A i \in 1..Len(rows) :
                              profiles[j].version <= profiles[rows[i]].version
    /\ (/\ last.op = "update" /\ last.status = HTTP_200_OK
        /\ Cardinality(UserRows(profiles, last.user)) = 2)
         => LET rows == HistoryRows(last.user, 10) IN
            /\ Len(rows) = 2
            /\ profiles[rows[1]].version = 2 /\ profiles[rows[1]].is_active
            /\ profiles[rows[2]].version = 1 /\ ~profiles[rows[2]].is_active

\* C20: a generated_content row refers to no analysis (NULL) or to an
\* analysis of its own user that the request loaded and gave to the agent;
\* a bio generated from no job context stores NULL.
C20_ReferenceOnlyIfInformed ==
    [][\A c \in contents' \ contents :
           \/ c.job_analysis_id = Null
           \/ /\ \E j \in jobs : j.id = c.job_analysis_id /\ j.user_id = c.user_id
              /\ calls'[1].job_context = c.job_analysis_id]_vars

\* C21: a job-analysis request with neither a job URL nor a job text is
\* answered with a client error, calls the remote model not once and stores
\* no job analysis.
C21_NoInputRejected ==
    [][(Answered("analyze") /\ last'.arg = 0)
         => /\ last'.status \in 400..499
            /\ calls' = <<>>
            /\ jobs' = jobs /\ job_seq' = job_seq]_vars

\* C21 witness: a request without input was answered 400 while another
\* analysis of the same user is stored.
C21_Witness ==
    /\ last.op = "analyze" /\ last.arg = 0
    /\ last.status = HTTP_400_BAD_REQUEST
    /\ calls = <<>>
    /\ \E j \in jobs : j.user_id = last.user

\* This step deletes user u
Deletes(u) == users[u] # DeletedUser /\ users'[u] = DeletedUser

OthersRows(P, u) == SelectSeq(P, LAMBDA p : p.user_id # u)

\* C22: deleting a user removes every profile, job analysis and generated
\* content of the user, leaves no row that names a user that does not
\* exist, and leaves the rows of the other users as they were.
C22_DeleteCascades ==
    [][\A u \in UserIds :
         Deletes(u)
           => /\ \A i \in 1..Len(profiles') : users'[profiles'[i].user_id] # DeletedUser
              /\ \A j \in jobs' : users'[j.user_id] # DeletedUser
              /\ \A c \in contents' : users'[c.user_id] # DeletedUser
              /\ profiles' = OthersRows(profiles, u)
              /\ jobs' = {j \in jobs : j.user_id # u}
              /\ contents' = {c \in contents : c.user_id # u}
              /\ \A v \in UserIds \ {u} : users'[v] = users[v]]_vars

\* The places of the section-start markers in a text
MarkerPlaces(text) ==
    {i \in 1..Len(text) :
        \E k \in 1..Len(job_start_patterns) : text[i] = job_start_patterns[k]}

\* C23: when the text, its whitespace collapsed, holds section-start
\* markers, the content kept starts at the earliest place where any of them
\* occurs; what comes before is discarded.
C23_KeepsFromEarliestMarker ==
    (/\ last.op = "_clean_job_text" /\ last.runs = 1
     /\ MarkerPlaces(CollapseWhitespace(last.text)) # {})
      => LET collapsed == CollapseWhitespace(last.text)
             kept == SubSeq(collapsed, Least(MarkerPlaces(collapsed)), Len(collapsed))
         IN  last.cleaned = header_info(collapsed) \o strip(noise_patterns(kept))

InFlight(r) == {i \in 1..Len(r.sent) : ~r.sent[i].returned}

\* C25: a CV generation has at most one remote call in flight; the
\* gap-analysis prompt is in flight only when the reply to the CV prompt
\* has come; and the request stores its row, and a row is stored, only when
\* no call of the request is in flight.
C25_OneCallAtATime ==
    [][\A s \in Slots :
         /\ reqs'[s].op = "generate_cv"
              => /\ Cardinality(InFlight(reqs'[s])) <= 1
                 /\ \A i \in InFlight(reqs'[s]) :
                        reqs'[s].sent[i].prompt = "gap"
                          => \E j \in 1..(i - 1) :
                                 reqs'[s].sent[j] = Returned("cv")
                 /\ reqs'[s].pc = "commit"
                      => InFlight(reqs'[s]) = {} /\ Len(reqs'[s].sent) = 2
         /\ (reqs[s].op = "generate_cv" /\ reqs'[s] = Idle /\ contents' # contents)
              => reqs[s].pc = "commit" /\ InFlight(reqs[s]) = {}]_vars

\* C25 witness: a request waits for the reply to the gap-analysis prompt,
\* the reply to its CV prompt received, while the other request waits for
\* the reply to its CV prompt.
C25_Witness ==
    /\ reqs[1].op = "generate_cv" /\ reqs[1].pc = "gap"
    /\ reqs[1].sent = <<Returned("cv"), Sent("gap")>>
    /\ reqs[2].op = "generate_cv" /\ reqs[2].pc = "cv"

\* C26: with the profile requests run one after another, the versions of a
\* user's rows are 1..n, each once; the active row is the one of the
\* highest version; and a user with a row has exactly one active row.
C26_VersionsGaplessTopActive ==
    \A u \in UserIds :
        LET rows == UserRows(profiles, u) IN
        /\ \A i, j \in rows : i # j => profiles[i].version # profiles[j].version
        /\ {profiles[i].version : i \in rows} = 1..Cardinality(rows)
        /\ \A i \in ActiveRows(profiles, u) :
               profiles[i].version = MaxVersion(profiles, u)
        /\ rows # {} => ActiveCount(u) = 1

\* C26 witness: an import has given a user the third row, which is active
\* and of version 3.
C26_Witness ==
    /\ last.op = "import" /\ last.status = HTTP_200_OK
    /\ Cardinality(UserRows(profiles, last.user)) = 3
    /\ \E i \in ActiveRows(profiles, last.user) : profiles[i].version = 3

\* What an import of x by user u does to the table as it stands
ImportNow(u, x) ==
    import_profile_data(profiles, u, x, scalar_one_or_none(ActiveRows(profiles, u)))

\* C27: an import of data that validates answers 200, turns the active row
\* of the user, if any, inactive and adds one active row of that row's
\* version + 1, or of version 1; an import of data that fails validation
\* answers a client error and leaves the table as it is.
C27_ImportLikeUpdateOrUnchanged ==
    \A u \in UserIds, x \in ImportInputs :
        LET out == ImportNow(u, x)
            active == ActiveRows(profiles, u)
        IN  IF ImportValid(x)
            THEN /\ out.status = HTTP_200_OK
                 /\ Len(out.profiles) = Len(profiles) + 1
                 /\ \A i \in ProfileIds(profiles) :
                        out.profiles[i] =
                            IF i \in active THEN [profiles[i] EXCEPT !.is_active = FALSE]
                            ELSE profiles[i]
                 /\ LET row == out.profiles[Len(profiles) + 1] IN
                    /\ row.user_id = u /\ row.is_active
                    /\ row.profile_data = ImportToProfileData(x)
                    /\ IF active = {} THEN row.version = 1
                       ELSE \A i \in active : row.version = profiles[i].version + 1
            ELSE /\ out.status \in 400..499
                 /\ out.profiles = profiles
----------------------------------------------------------------------------
(* Properties of deactivated users *)

\* This step answers a login that gave the stored password of a user who
\* has been deactivated
LoginOfDeactivated ==
    /\ last'.op = "login" /\ (last' # last \/ tokens' # tokens)
    /\ \E i \in UserIds :
           /\ users[i].email = last'.email
           /\ verify_password(last'.password, users[i].password_hash)
           /\ ~users[i].is_active

\* This step answers a request that carried a token login had issued to a
\* user who has since been deactivated
TokenOfDeactivated ==
    /\ TokenAnswered
    /\ last'.credentials \in tokens
    /\ ~users[last'.credentials.user_id].is_active

\* The request was turned away before its handler ran
HandlerNotRun ==
    /\ last'.user = None /\ last'.rows = <<>>
    /\ UNCHANGED <<users, profiles, jobs, contents, tokens>>

\* C28 as claimed: once a user is deactivated, a login with the correct
\* password issues no token and every request presenting a token issued
\* before the deactivation is rejected before its handler runs; both
\* rejections are answered 400.
C28_DeactivatedIsBadRequest ==
    [][/\ LoginOfDeactivated =>
             last'.status = HTTP_400_BAD_REQUEST /\ tokens' = tokens
       /\ TokenOfDeactivated =>
             last'.status = HTTP_400_BAD_REQUEST /\ HandlerNotRun]_vars

\* C28 amended: the login is answered 400 and issues no token; the request
\* with the earlier token is always rejected before its handler runs, with
\* 400 while the token has not expired and with 401 once it has.
C28_DeactivatedRejected ==
    [][/\ LoginOfDeactivated =>
             last'.status = HTTP_400_BAD_REQUEST /\ tokens' = tokens
       /\ TokenOfDeactivated =>
             /\ HandlerNotRun
             /\ last'.status \in {HTTP_400_BAD_REQUEST, HTTP_401_UNAUTHORIZED}
             /\ now < last'.credentials.exp =>
                    last'.status = HTTP_400_BAD_REQUEST
             /\ now > last'.credentials.exp =>
                    last'.status = HTTP_401_UNAUTHORIZED]_vars

\* C28 witness: a profile update carrying an unexpired token of a user
\* deactivated after the token was issued was answered 400, a stored
\* profile row left as it was.
C28_Witness ==
    /\ last.op = "update" /\ last.status = HTTP_400_BAD_REQUEST
    /\ last.credentials \in tokens
    /\ now < last.credentials.exp
    /\ ~users[last.credentials.user_id].is_active
    /\ profiles # <<>>

\* A login with the stored password of a deactivated user was answered 400
C28_WitnessLogin ==
    /\ last.op = "login" /\ last.status = HTTP_400_BAD_REQUEST
    /\ tokens # {}
----------------------------------------------------------------------------
(* Properties of the CV route's lookups *)

\* The caller of the request answered in this step owns the analysis named
OwnsNamedJob == \E j \in jobs : j.id = last'.arg /\ j.user_id = last'.user

\* The caller of the request answered in this step has an active profile
HasActiveProfile == ActiveRows(profiles, last'.user) # {}

\* C29: a CV request calls the remote model or stores a row only if the
\* caller owns the named analysis and has an active profile; otherwise it
\* is answered 404, no remote call is made and no row is stored.
C29_CVNeedsJobAndProfile ==
    [][Answered("generate_cv") =>
         /\ (calls' # <<>> \/ contents' # contents)
                => OwnsNamedJob /\ HasActiveProfile
         /\ ~(OwnsNamedJob /\ HasActiveProfile)
                => /\ last'.status = HTTP_404_NOT_FOUND
                   /\ last'.rows = <<>>
                   /\ calls' = <<>>
                   /\ contents' = contents /\ content_seq' = content_seq
                   /\ jobs' = jobs]_vars

\* C29 witness: a CV request for an analysis the caller owns was answered
\* 404 without a remote call, the caller having no active profile.
C29_Witness ==
    /\ last.op = "generate_cv" /\ last.status = HTTP_404_NOT_FOUND
    /\ calls = <<>>
    /\ \E j \in jobs : j.id = last.arg /\ j.user_id = last.user
    /\ ActiveRows(profiles, last.user) = {}

\* A CV request of a caller with both rows reached the remote model
C29_WitnessCalled ==
    /\ last.op = "generate_cv" /\ calls # <<>>
    /\ \E j \in jobs : j.id = last.arg /\ j.user_id = last.user
    /\ ActiveRows(profiles, last.user) # {}

\* A CV request for another user's analysis was answered 404
C29_WitnessForeign ==
    /\ last.op = "generate_cv" /\ last.status = HTTP_404_NOT_FOUND
    /\ \E j \in jobs : j.id = last.arg /\ j.user_id # last.user
    /\ ActiveRows(profiles, last.user) # {}
----------------------------------------------------------------------------
(* Properties of registration *)

\* This step answers a registration that found its email stored when it
\* looked it up
RegisterOfStoredEmail ==
    /\ last'.op = "register" /\ last' # last
    /\ reqs' = reqs
    /\ \E i \in UserIds : users[i].email = last'.email

\* C30: a registration with an email that belongs to a stored user fails
\* with a client error and leaves the users table as it was; in every
\* reachable state, two concurrent registrations of one email included, no
\* two users share an email.
C30_EmailUnique ==
    /\ [](\A i, j \in UserIds : users[i].email = users[j].email => i = j)
    /\ [][RegisterOfStoredEmail =>
             last'.status \in 400..499 /\ users' = users]_vars

\* C30 witness: a registration of a stored email under another password
\* was answered 400, the stored hash still the earlier password's, while
\* an earlier registration of the same email is still waiting to insert.
C30_Witness ==
    /\ last.op = "register" /\ last.status = HTTP_400_BAD_REQUEST
    /\ \E i \in UserIds :
           /\ users[i].email = last.email
           /\ ~verify_password(last.password, users[i].password_hash)
    /\ \E s \in Slots : reqs[s] # Idle /\ reqs[s].email = last.email

\* Of two registrations of one email that both found it free, the second
\* to insert was refused by the unique index
C30_WitnessRace ==
    /\ last.op = "register" /\ last.status = HTTP_500_INTERNAL_SERVER_ERROR
    /\ \E i \in UserIds : users[i].email = last.email

====
